---- MODULE Spec2Model ----
(***************************************************************************)
(* Model of the AI image editor: the editing session held by the           *)
(* ImageEditor component (current/original image, edit history, history    *)
(* index, processing flag, status message), the handlers that change it,   *)
(* the sidebar and header controls that trigger them, and the remote       *)
(* processing client AIImageService.                                       *)
(*                                                                         *)
(* Spec follows one editing session; FairSpec adds that awaited promises   *)
(* settle.  ServiceSpec follows one call of the remote client from each of *)
(* its callers (the POST route, handleProcessImage, a direct call).        *)
(* ExportSpec follows the ExportPanel next to a session with an image.     *)
(* CanvasSpec follows the ImageCanvas next to a session with one edit, and *)
(* SizeSpec one call of getOptimalDisplaySize.                             *)
(*                                                                         *)
(* The history index keeps the code's convention: -1 is "original image",  *)
(* 0 .. length-1 point at an entry.  editHistory is a TLA+ sequence, so    *)
(* entry i of the code is editHistory[i + 1].                              *)
(***************************************************************************)
EXTENDS Integers, Sequences, FiniteSets, TLC

(***************************************************************************)
(* Bounds of the model.                                                    *)
(***************************************************************************)
MaxUploads == 2      \* files dropped on the uploader in one behaviour
MaxTime == 2         \* operations started and images replaced in one behaviour; the clock advances once in each operation
MaxInflight == 2     \* handler invocations that may be suspended at an await

(***************************************************************************)
(* Values.                                                                 *)
(***************************************************************************)
NoFile == 0          \* currentFile = null; the k-th dropped File object is k

NoImage == [kind |-> "empty", id |-> 0]
BlobUrl(n) == [kind |-> "blob", id |-> n]

PayloadIds == {1}

\* The File objects dropped on the uploader, by MIME type and size in bytes.
maxSize == 10 * 1024 * 1024
allowedTypes == {"image/jpeg", "image/jpg", "image/png", "image/webp", "image/gif"}
FileTypes == allowedTypes \cup {"image/bmp", "image/svg+xml"}
FileSizes == {1, maxSize, maxSize + 1}
\* The files dropped in a behaviour: one of the largest accepted size, one
\* byte larger, and one of a type outside the list.
DroppedFiles == {[type |-> "image/png", size |-> maxSize],
                 [type |-> "image/png", size |-> maxSize + 1],
                 [type |-> "image/bmp", size |-> 1]}

Styles == {"anime"}
Prompts == {"cat"}
NoParams == [style |-> "", prompt |-> ""]

EnumOps == {"background-removal", "style-transfer", "enhance",
            "object-removal", "artistic-filter"}

\* The (operation, parameters) pairs the sidebar buttons pass to onProcessImage:
\* a button without parameters, a button with a style, and the custom edit,
\* which takes the default branch of the controller's switch.
handleImageEnhancement == [operation |-> "enhance", parameters |-> NoParams]
handleStyleTransfer(style) == [operation |-> "style-transfer",
                               parameters |-> [style |-> style, prompt |-> ""]]
handleCustomEdit(p) == [operation |-> "custom-edit",
                        parameters |-> [style |-> "", prompt |-> p]]

SidebarTriggers ==
    {handleImageEnhancement}
      \cup {handleStyleTransfer(s) : s \in Styles}
      \cup {handleCustomEdit(p) : p \in Prompts}

VARIABLES
    currentFile,          \* useState<File | null>
    currentImageUrl,      \* useState<string>
    originalImageUrl,     \* useState<string>
    isProcessing,         \* useState(false)
    editHistory,          \* useState<EditHistory[]>
    currentHistoryIndex,  \* useState(-1)
    processingStatus,     \* useState<string>
    inflight,             \* invocations of handleProcessImage suspended at an await
    timers,               \* pending setTimeout(() => setProcessingStatus(''), 3000)
    now,                  \* Date.now(), in units of one operation's duration
    nextUrl,              \* number of object URLs created so far
    alertMsg,             \* the alert() shown by the last step, if any
    lastEvent,            \* the handler the last step ran, and the index and history length it found
    lastResult,           \* the result processImage returned in the last step, if any
    fetches,              \* number of fetch() calls issued to the service endpoint so far
    svcCaller,            \* who calls the service: the POST route, handleProcessImage, or processImage directly
    svcInput,             \* image, operation and parameters the caller was given
    svcStage,             \* position of the call: "idle", "called", "fetch", "replied"
    svcRequest,           \* the AIImageEditRequest handed to processImage
    svcFetch,             \* the fetch() calls made for it
    svcReply,             \* what the caller returns: the route's HTTP answer, or the result
    exportFormat,         \* ExportPanel useState('png')
    quality,              \* ExportPanel useState([90]): the value quality[0]
    customName,           \* ExportPanel useState('')
    isExporting,          \* ExportPanel useState(false)
    pendingExport,        \* the convertAndDownload call waiting for its image, if any
    exported,             \* what the last step of an export produced, if anything
    zoom,                 \* ImageCanvas useState([100]): the value zoom[0]
    canvasSize,           \* ImageCanvas useState({ width: 800, height: 600 })
    imageDimensions,      \* ImageCanvas useState<ImageDimensions | null>(null)
    isLoading,            \* ImageCanvas useState(false)
    loads,                \* the Image objects whose onload / onerror has not fired yet
    canvasImage,          \* what was drawn on the canvas last: the image and the zoom
    loggedLoadError,      \* console.error('Failed to load image') has been called
    sizeArgs,             \* the arguments of a call of getOptimalDisplaySize
    displaySize           \* what that call returned

vars == <<currentFile, currentImageUrl, originalImageUrl, isProcessing, editHistory,
          currentHistoryIndex, processingStatus, inflight, timers, now, nextUrl,
          alertMsg, lastEvent, lastResult, fetches,
          svcCaller, svcInput, svcStage, svcRequest, svcFetch, svcReply,
          exportFormat, quality, customName, isExporting, pendingExport, exported,
          zoom, canvasSize, imageDimensions, isLoading, loads, canvasImage,
          loggedLoadError, sizeArgs, displaySize>>

editorVars == <<currentFile, currentImageUrl, originalImageUrl, isProcessing, editHistory,
                currentHistoryIndex, processingStatus, inflight, timers, now, nextUrl,
                alertMsg, lastEvent, lastResult, fetches>>
serviceVars == <<svcCaller, svcInput, svcStage, svcRequest, svcFetch, svcReply>>
panelVars == <<exportFormat, quality, customName, isExporting, pendingExport, exported>>
canvasVars == <<zoom, canvasSize, imageDimensions, isLoading, loads, canvasImage,
                loggedLoadError, sizeArgs, displaySize>>

session == <<currentImageUrl, originalImageUrl, editHistory, currentHistoryIndex>>

NoStatus == [kind |-> "none", operation |-> ""]
NoAlert == [kind |-> "none", error |-> [text |-> "", status |-> 0]]
Event(name) == [name |-> name, index |-> currentHistoryIndex, length |-> Len(editHistory)]


(***************************************************************************)
(* Remote processing client (AIImageService).                              *)
(***************************************************************************)

\* A request handed to processImage.  image is the base64 text of a file.
Base64Of(file) == [kind |-> "base64", id |-> file]
Request(image, operation, parameters) ==
    [image |-> image, operation |-> operation, parameters |-> parameters]

\* buildPromptForOperation: a fixed template per operation, with the style or
\* the prompt interpolated where the template has one.  `a || b` is b when a
\* is the empty string or absent.
OrDefault(a, b) == IF a = "" THEN b ELSE a

\* buildPromptForOperation with the style interpolated into the
\* background-removal instruction
buildPromptForOperation_StyledBackground(request) ==
    CASE request.operation = "background-removal" ->
           [template |-> "Remove the background", arg |-> request.parameters.style]
      [] request.operation = "style-transfer" ->
           [template |-> "Transform this image into <style> style",
            arg |-> OrDefault(request.parameters.style, "artistic")]
      [] request.operation = "enhance" ->
           [template |-> "Enhance this image", arg |-> ""]
      [] request.operation = "object-removal" ->
           [template |-> "Remove <prompt> from this image",
            arg |-> OrDefault(request.parameters.prompt, "unwanted object")]
      [] request.operation = "artistic-filter" ->
           [template |-> "Apply a <style> artistic filter",
            arg |-> OrDefault(request.parameters.style, "watercolor")]
      [] OTHER ->
           [template |-> "Process and enhance this image", arg |-> ""]
buildPromptForOperation(request) ==
    CASE request.operation = "background-removal" ->
           [template |-> "Remove the background", arg |-> ""]
      [] request.operation = "style-transfer" ->
           [template |-> "Transform this image into <style> style",
            arg |-> OrDefault(request.parameters.style, "artistic")]
      [] request.operation = "enhance" ->
           [template |-> "Enhance this image", arg |-> ""]
      [] request.operation = "object-removal" ->
           [template |-> "Remove <prompt> from this image",
            arg |-> OrDefault(request.parameters.prompt, "unwanted object")]
      [] request.operation = "artistic-filter" ->
           [template |-> "Apply a <style> artistic filter",
            arg |-> OrDefault(request.parameters.style, "watercolor")]
      [] OTHER ->
           [template |-> "Process and enhance this image", arg |-> ""]

\* What fetch() and response.json() can deliver.  A body is the parsed JSON:
\*   badJson    response.json() rejects
\*   nullJson   the JSON value null
\*   noChoices  an object without choices[0].message
\*   noContent  choices[0].message without content
\*   nonText    content that is not a string (an array of parts, an object)
\*   emptyText  content is the empty string
\*   urlText    content is text holding the image URL number id
\*   httpText   content is text that starts with "http" and holds no image URL
\*   plainText  content is any other text (number id)
BodyShapes == {"badJson", "nullJson", "noChoices", "noContent", "nonText",
               "emptyText", "urlText", "httpText", "plainText"}
Bodies == {[shape |-> sh, id |-> 0] :
             sh \in {"badJson", "nullJson", "noChoices", "noContent", "nonText", "emptyText"}}
          \cup {[shape |-> sh, id |-> k] :
             sh \in {"urlText", "httpText", "plainText"}, k \in PayloadIds}
\* fetch rejects (network failure), or resolves with a status and a body.  The
\* body of a non-2xx answer is left unread by the code; the server may send
\* an error page or a well-formed completion with it.
NetworkFailure == [network |-> FALSE, status |-> 0, body |-> [shape |-> "badJson", id |-> 0]]
Responses == {NetworkFailure}
             \cup {[network |-> TRUE, status |-> 200, body |-> b] : b \in Bodies}
             \cup {[network |-> TRUE, status |-> st, body |-> [shape |-> sh, id |-> k]] :
                     st \in {404, 500}, sh \in {"urlText"}, k \in PayloadIds}
             \cup {[network |-> TRUE, status |-> 500, body |-> [shape |-> "badJson", id |-> 0]]}

ResponseOk(response) == response.status >= 200 /\ response.status <= 299

\* Strings a result can carry in data.
EmptyData == [kind |-> "empty", id |-> 0]
HasChoiceMessage(body) == body.shape \notin {"badJson", "nullJson", "noChoices"}

\* extractImageFromResponse without the search for an image URL
extractImageFromResponse_NoUrlSearch(body) ==
    IF body.shape = "nullJson" THEN [threw |-> TRUE, value |-> EmptyData]
    ELSE CASE body.shape \in {"urlText", "plainText"} ->
                [threw |-> FALSE, value |-> [kind |-> "text", id |-> body.id]]
           [] body.shape = "httpText" ->
                [threw |-> FALSE, value |-> [kind |-> "httptext", id |-> body.id]]
           [] OTHER -> [threw |-> FALSE, value |-> EmptyData]
\* extractImageFromResponse: [threw |-> TRUE] stands for the TypeError of
\* content.match on a content that is not a string, or of response.choices on
\* null.
extractImageFromResponse(body) ==
    IF body.shape = "nullJson" THEN [threw |-> TRUE, value |-> EmptyData]
    ELSE IF HasChoiceMessage(body) /\ body.shape \in {"noContent", "nonText"}
      THEN [threw |-> TRUE, value |-> EmptyData]
    ELSE IF HasChoiceMessage(body) /\ body.shape = "urlText"
      THEN [threw |-> FALSE, value |-> [kind |-> "http", id |-> body.id]]
    ELSE CASE body.shape = "httpText" ->
                [threw |-> FALSE, value |-> [kind |-> "httptext", id |-> body.id]]
           [] body.shape = "plainText" ->
                [threw |-> FALSE, value |-> [kind |-> "text", id |-> body.id]]
           [] OTHER -> [threw |-> FALSE, value |-> EmptyData]

NoError == [text |-> "", status |-> 0]
NoResult == [success |-> FALSE, data |-> [kind |-> "none", id |-> 0], error |-> NoError]
ErrorMessage(text, status) == [text |-> text, status |-> status]
Failure(err) == [success |-> FALSE, data |-> EmptyData, error |-> err]

\* The fetch() calls one processImage(request) makes: one POST of the prompt
\* and the image to the endpoint, with no retry in the catch block.
endpoint == "https://oi-server.onrender.com/chat/completions"
Fetch(request) == [url |-> endpoint,
                   method |-> "POST",
                   text |-> buildPromptForOperation(request),
                   image_url |-> request.image]
fetchCalls_Retry(request) == <<Fetch(request), Fetch(request)>>
fetchCalls(request) == <<Fetch(request)>>

\* processImage without the test of response.ok.
processImage_IgnoresStatus(request, response) ==
    IF ~response.network THEN Failure(ErrorMessage("Failed to fetch", 0))
    ELSE IF response.body.shape = "badJson"
      THEN Failure(ErrorMessage("Unexpected token in JSON", 0))
    ELSE LET imageUrl == extractImageFromResponse(response.body) IN
         IF imageUrl.threw THEN Failure(ErrorMessage("Cannot read properties", 0))
         ELSE [success |-> TRUE, data |-> imageUrl.value, error |-> NoError]

\* processImage: everything between try and catch; the catch turns whatever
\* was thrown into a failure result carrying the error's message.
processImage(request, response) ==
    IF ~response.network THEN Failure(ErrorMessage("Failed to fetch", 0))
    ELSE IF ~ResponseOk(response)
      THEN Failure(ErrorMessage("AI service error: <status>", response.status))
    ELSE IF response.body.shape = "badJson"
      THEN Failure(ErrorMessage("Unexpected token in JSON", 0))
    ELSE LET imageUrl == extractImageFromResponse(response.body) IN
         IF imageUrl.threw THEN Failure(ErrorMessage("Cannot read properties", 0))
         ELSE [success |-> TRUE, data |-> imageUrl.value, error |-> NoError]


(***************************************************************************)
(* Session controller (ImageEditor): the handlers as functions of the      *)
(* state their closures read.                                              *)
(***************************************************************************)
St == [currentFile |-> currentFile,
       currentImageUrl |-> currentImageUrl,
       originalImageUrl |-> originalImageUrl,
       editHistory |-> editHistory,
       currentHistoryIndex |-> currentHistoryIndex]

Commit(s) ==
    /\ currentFile' = s.currentFile
    /\ currentImageUrl' = s.currentImageUrl
    /\ originalImageUrl' = s.originalImageUrl
    /\ editHistory' = s.editHistory
    /\ currentHistoryIndex' = s.currentHistoryIndex

\* editHistory.slice(0, n): the first n entries (all of them when n exceeds the length).
Slice(h, n) == SubSeq(h, 1, IF n < Len(h) THEN n ELSE Len(h))

\* handleImageUpload without setEditHistory([]) and setCurrentHistoryIndex(-1).
handleImageUpload_KeepsHistory(s, file, imageUrl) ==
    [currentFile |-> file,
     currentImageUrl |-> imageUrl,
     originalImageUrl |-> imageUrl,
     editHistory |-> s.editHistory,
     currentHistoryIndex |-> s.currentHistoryIndex]

handleImageUpload(s, file, imageUrl) ==
    [currentFile |-> file,
     currentImageUrl |-> imageUrl,
     originalImageUrl |-> imageUrl,
     editHistory |-> <<>>,
     currentHistoryIndex |-> -1]

\* addToHistory without the slice: the new entry goes after the redo entries.
addToHistory_NoTruncate(history, index, imageUrl, operation, timestamp) ==
    LET newEntry == [imageUrl |-> imageUrl, operation |-> operation, timestamp |-> timestamp]
        newHistory == Append(history, newEntry)
    IN [editHistory |-> newHistory, currentHistoryIndex |-> Len(newHistory) - 1]

\* addToHistory with setCurrentHistoryIndex(newHistory.length).
addToHistory_IndexLength(history, index, imageUrl, operation, timestamp) ==
    LET newEntry == [imageUrl |-> imageUrl, operation |-> operation, timestamp |-> timestamp]
        newHistory == Append(Slice(history, index + 1), newEntry)
    IN [editHistory |-> newHistory, currentHistoryIndex |-> Len(newHistory)]

\* addToHistory with the newest entry first: [newEntry, ...slice].
addToHistory_Prepend(history, index, imageUrl, operation, timestamp) ==
    LET newEntry == [imageUrl |-> imageUrl, operation |-> operation, timestamp |-> timestamp]
        newHistory == <<newEntry>> \o Slice(history, index + 1)
    IN [editHistory |-> newHistory, currentHistoryIndex |-> Len(newHistory) - 1]

\* addToHistory reads editHistory and currentHistoryIndex from the closure of
\* the render in which the callback was created.
addToHistory(history, index, imageUrl, operation, timestamp) ==
    LET newEntry == [imageUrl |-> imageUrl, operation |-> operation, timestamp |-> timestamp]
        newHistory == Append(Slice(history, index + 1), newEntry)
    IN [editHistory |-> newHistory, currentHistoryIndex |-> Len(newHistory) - 1]

\* handleUndo without setCurrentImageUrl.
handleUndo_KeepsImage(s) ==
    IF s.currentHistoryIndex >= 0
      THEN [s EXCEPT !.currentHistoryIndex = s.currentHistoryIndex - 1]
    ELSE s

\* handleUndo without the branch for index 0.
handleUndo_NoOriginal(s) ==
    IF s.currentHistoryIndex > 0
      THEN [s EXCEPT !.currentHistoryIndex = s.currentHistoryIndex - 1,
                     !.currentImageUrl = s.editHistory[(s.currentHistoryIndex - 1) + 1].imageUrl]
    ELSE s

handleUndo(s) ==
    IF s.currentHistoryIndex > 0
      THEN [s EXCEPT !.currentHistoryIndex = s.currentHistoryIndex - 1,
                     !.currentImageUrl = s.editHistory[(s.currentHistoryIndex - 1) + 1].imageUrl]
    ELSE IF s.currentHistoryIndex = 0
      THEN [s EXCEPT !.currentHistoryIndex = -1,
                     !.currentImageUrl = s.originalImageUrl]
    ELSE s

\* handleRedo without setCurrentImageUrl.
handleRedo_KeepsImage(s) ==
    IF s.currentHistoryIndex < Len(s.editHistory) - 1
      THEN [s EXCEPT !.currentHistoryIndex = s.currentHistoryIndex + 1]
    ELSE s

handleRedo(s) ==
    IF s.currentHistoryIndex < Len(s.editHistory) - 1
      THEN [s EXCEPT !.currentHistoryIndex = s.currentHistoryIndex + 1,
                     !.currentImageUrl = s.editHistory[(s.currentHistoryIndex + 1) + 1].imageUrl]
    ELSE s

\* handleReset without setEditHistory([]).
handleReset_KeepsHistory(s) ==
    [s EXCEPT !.currentImageUrl = s.originalImageUrl,
              !.currentHistoryIndex = -1]

handleReset(s) ==
    [s EXCEPT !.currentImageUrl = s.originalImageUrl,
              !.currentHistoryIndex = -1,
              !.editHistory = <<>>]

\* The history buttons with setCurrentHistoryIndex only.
jumpTo_IndexOnly(s, index) == [s EXCEPT !.currentHistoryIndex = index]

\* The onClick of the "Original" button (index = -1) and of the button of
\* entry index in the edit-history card.
jumpTo(s, index) ==
    IF index = -1
      THEN [s EXCEPT !.currentHistoryIndex = -1,
                     !.currentImageUrl = s.originalImageUrl]
      ELSE [s EXCEPT !.currentHistoryIndex = index,
                     !.currentImageUrl = s.editHistory[index + 1].imageUrl]

canUndo == currentHistoryIndex >= 0
\* canRedo compared with the length, not with the last index.
canRedo_AtEnd == currentHistoryIndex < Len(editHistory)
canRedo == currentHistoryIndex < Len(editHistory) - 1


\* The switch with the default branch passing the operation name on
Dispatch_KeepsName(operation, parameters, base64Image) ==
    CASE operation = "background-removal" ->
           Request(base64Image, "background-removal", NoParams)
      [] operation = "style-transfer" ->
           Request(base64Image, "style-transfer",
                   [style |-> OrDefault(parameters.style, "artistic"), prompt |-> ""])
      [] operation = "enhance" ->
           Request(base64Image, "enhance", NoParams)
      [] operation = "object-removal" ->
           Request(base64Image, "object-removal",
                   [style |-> "", prompt |-> parameters.prompt])
      [] operation = "artistic-filter" ->
           Request(base64Image, "artistic-filter",
                   [style |-> OrDefault(parameters.style, "watercolor"), prompt |-> ""])
      [] OTHER ->
           Request(base64Image, operation, parameters)
\* The switch of handleProcessImage: the request each branch hands to
\* processImage through the service's wrapper methods.
Dispatch(operation, parameters, base64Image) ==
    CASE operation = "background-removal" ->
           Request(base64Image, "background-removal", NoParams)
      [] operation = "style-transfer" ->
           Request(base64Image, "style-transfer",
                   [style |-> OrDefault(parameters.style, "artistic"), prompt |-> ""])
      [] operation = "enhance" ->
           Request(base64Image, "enhance", NoParams)
      [] operation = "object-removal" ->
           Request(base64Image, "object-removal",
                   [style |-> "", prompt |-> parameters.prompt])
      [] operation = "artistic-filter" ->
           Request(base64Image, "artistic-filter",
                   [style |-> OrDefault(parameters.style, "watercolor"), prompt |-> ""])
      [] OTHER ->
           Request(base64Image, "enhance", parameters)

\* The guard at the top of handleProcessImage: !currentFile || !currentImageUrl
NoImageLoaded_Unguarded(s) == FALSE
NoImageLoaded(s) == s.currentFile = NoFile \/ s.currentImageUrl = NoImage

\* result.data.startsWith('http') and the image URL made of the result.
StartsWithHttp(data) == data.kind \in {"http", "httptext"}
NewImageUrl(data) == IF StartsWithHttp(data) THEN data ELSE [kind |-> "data", id |-> data.id]

\* result.success && result.data
ResultUsable(result) == result.success /\ result.data # EmptyData

\* validateImageFile: the type is checked before the size.
validateImageFile_SizeAtLeast(file) ==
    IF file.type \notin allowedTypes
      THEN [valid |-> FALSE,
            error |-> "Please upload a valid image file (JPEG, PNG, WebP, or GIF)"]
      ELSE IF file.size >= maxSize
        THEN [valid |-> FALSE, error |-> "Image size must be less than 10MB"]
        ELSE [valid |-> TRUE, error |-> ""]
validateImageFile(file) ==
    IF file.type \notin allowedTypes
      THEN [valid |-> FALSE,
            error |-> "Please upload a valid image file (JPEG, PNG, WebP, or GIF)"]
      ELSE IF file.size > maxSize
        THEN [valid |-> FALSE, error |-> "Image size must be less than 10MB"]
        ELSE [valid |-> TRUE, error |-> ""]

\* onDrop of ImageUploader for the first accepted file: the session it leaves,
\* the alert it shows and the handler that ran.
onDrop(s, file, fileObject, imageUrl) ==
    LET validation == validateImageFile(file)
    IN IF validation.valid
         THEN [st |-> handleImageUpload(s, fileObject, imageUrl),
               alertMsg |-> NoAlert,
               event |-> "upload"]
         ELSE [st |-> s,
               alertMsg |-> [kind |-> validation.error, error |-> NoError],
               event |-> "uploadRejected"]

(***************************************************************************)
(* Controls: the disabled props and the conditions under which the         *)
(* controls are rendered.                                                  *)
(***************************************************************************)
hasImage == currentImageUrl # NoImage

\* <ImageUploader disabled={isProcessing}/>.  The handler takes a file in
\* every state; the uploader supports replacing a loaded image.
UploaderEnabled == ~isProcessing
\* Sidebar buttons with disabled={!hasImage}.
SidebarEnabled_NoProcessingCheck == hasImage
\* Every sidebar button: disabled={!hasImage || ... || isProcessing}
SidebarEnabled == hasImage /\ ~isProcessing
\* The Undo button with disabled={!canUndo}.
UndoEnabled_WhileProcessing == hasImage /\ canUndo
UndoEnabled == hasImage /\ canUndo /\ ~isProcessing
RedoEnabled == hasImage /\ canRedo /\ ~isProcessing
ResetEnabled == hasImage /\ ~isProcessing
\* The edit-history card is rendered while the history is not empty.
HistoryButtonsEnabled == hasImage /\ Len(editHistory) > 0 /\ ~isProcessing

\* Operations started and images replaced so far.
Started == now + Len(inflight) + (IF nextUrl > 0 THEN nextUrl - 1 ELSE 0)

RemoveAt(q, i) == SubSeq(q, 1, i - 1) \o SubSeq(q, i + 1, Len(q))

(***************************************************************************)
(* The callers of the remote client: the POST route of the API, the        *)
(* controller's handleProcessImage, and a direct call of processImage.     *)
(* One call is followed from the caller's input to what it returns.        *)
(***************************************************************************)
\* parameters as a caller passes them: "" is an absent string field, -1 an
\* absent intensity.
Intensities == {-1, 50}
Masks == {"", "mask"}
ParameterSpace == [style : {""} \cup Styles, prompt : {""} \cup Prompts,
                   intensity : Intensities, mask : Masks]
OperationNames == EnumOps \cup {"custom-edit"}

\* The image field of a JSON body: absent (or empty), a value that is not a
\* string, or a base64 text.
MissingImage == [kind |-> "missing", id |-> 0]
ObjectImage == [kind |-> "object", id |-> 0]
Base64Images == {Base64Of(1), Base64Of(2)}

\* What request.json() makes of the request text: an object, the value null
\* (destructuring it throws a TypeError), or nothing (the text is not JSON and
\* request.json() throws a SyntaxError).
AbsentParameters == [style |-> "", prompt |-> "", intensity |-> -1, mask |-> ""]
NullBody == [json |-> "null", image |-> MissingImage, operation |-> "",
             parameters |-> AbsentParameters]
MalformedBody == [json |-> "malformed", image |-> MissingImage, operation |-> "",
                  parameters |-> AbsentParameters]

ServiceInputs(caller) ==
    IF caller = "POST"
      THEN [json : {"object"},
            image : {MissingImage, ObjectImage, Base64Of(1)},
            operation : OperationNames \cup {""},
            parameters : ParameterSpace] \cup {NullBody, MalformedBody}
      ELSE [image : Base64Images, operation : OperationNames, parameters : ParameterSpace]

NoRequest == Request(MissingImage, "", NoParams)
NoReply == [status |-> 0, success |-> FALSE, data |-> [kind |-> "none", id |-> 0],
            error |-> NoError, operation |-> "", details |-> ""]
BadRequest(text) == [status |-> 400, success |-> FALSE, data |-> [kind |-> "none", id |-> 0],
                     error |-> ErrorMessage(text, 0), operation |-> "", details |-> ""]
\* The answer of the catch block to an Error that was thrown in the handler.
InternalError(err) == [status |-> 500, success |-> FALSE, data |-> [kind |-> "none", id |-> 0],
                       error |-> err, operation |-> "",
                       details |-> "Failed to process image request"]
\* The Error thrown for a body: by request.json(), or by the destructuring.
Thrown(body) == ErrorMessage(IF body.json = "malformed" THEN "SyntaxError" ELSE "TypeError", 0)

\* POST without its try/catch: what request.json() throws leaves the handler
\* (status -1: there is no answer).
POST_NoCatch(body) ==
    IF body.json # "object"
      THEN [reply |-> [status |-> -1, success |-> FALSE,
                       data |-> [kind |-> "none", id |-> 0],
                       error |-> Thrown(body), operation |-> "", details |-> ""],
            calls |-> <<>>]
    ELSE IF body.image = MissingImage \/ body.operation = ""
      THEN [reply |-> BadRequest("Missing required fields: image and operation"),
            calls |-> <<>>]
    ELSE IF body.image.kind # "base64"
      THEN [reply |-> BadRequest("Image must be a base64 string"), calls |-> <<>>]
    ELSE CASE body.operation = "background-removal" ->
                [reply |-> NoReply,
                 calls |-> <<Request(body.image, "background-removal", NoParams)>>]
           [] body.operation = "style-transfer" ->
                [reply |-> NoReply,
                 calls |-> <<Request(body.image, "style-transfer",
                                     [style |-> OrDefault(body.parameters.style, "artistic"),
                                      prompt |-> ""])>>]
           [] body.operation = "enhance" ->
                [reply |-> NoReply, calls |-> <<Request(body.image, "enhance", NoParams)>>]
           [] body.operation = "object-removal" ->
                IF body.parameters.prompt = ""
                  THEN [reply |-> BadRequest("Object description is required for object removal"),
                        calls |-> <<>>]
                  ELSE [reply |-> NoReply,
                        calls |-> <<Request(body.image, "object-removal",
                                            [style |-> "", prompt |-> body.parameters.prompt])>>]
           [] body.operation = "artistic-filter" ->
                [reply |-> NoReply,
                 calls |-> <<Request(body.image, "artistic-filter",
                                     [style |-> OrDefault(body.parameters.style, "watercolor"),
                                      prompt |-> ""])>>]
           [] OTHER ->
                [reply |-> NoReply,
                 calls |-> <<Request(body.image, "enhance", body.parameters)>>]

\* POST of the route up to the service call: the 400 answers, the 500
\* answer of the catch block to a body that cannot be read, or the request
\* it hands to the client (calls is empty when it answers at once).
POST(body) ==
    IF body.json # "object"
      THEN [reply |-> InternalError(Thrown(body)), calls |-> <<>>]
    ELSE IF body.image = MissingImage \/ body.operation = ""
      THEN [reply |-> BadRequest("Missing required fields: image and operation"),
            calls |-> <<>>]
    ELSE IF body.image.kind # "base64"
      THEN [reply |-> BadRequest("Image must be a base64 string"), calls |-> <<>>]
    ELSE CASE body.operation = "background-removal" ->
                [reply |-> NoReply,
                 calls |-> <<Request(body.image, "background-removal", NoParams)>>]
           [] body.operation = "style-transfer" ->
                [reply |-> NoReply,
                 calls |-> <<Request(body.image, "style-transfer",
                                     [style |-> OrDefault(body.parameters.style, "artistic"),
                                      prompt |-> ""])>>]
           [] body.operation = "enhance" ->
                [reply |-> NoReply, calls |-> <<Request(body.image, "enhance", NoParams)>>]
           [] body.operation = "object-removal" ->
                IF body.parameters.prompt = ""
                  THEN [reply |-> BadRequest("Object description is required for object removal"),
                        calls |-> <<>>]
                  ELSE [reply |-> NoReply,
                        calls |-> <<Request(body.image, "object-removal",
                                            [style |-> "", prompt |-> body.parameters.prompt])>>]
           [] body.operation = "artistic-filter" ->
                [reply |-> NoReply,
                 calls |-> <<Request(body.image, "artistic-filter",
                                     [style |-> OrDefault(body.parameters.style, "watercolor"),
                                      prompt |-> ""])>>]
           [] OTHER ->
                [reply |-> NoReply,
                 calls |-> <<Request(body.image, "enhance", body.parameters)>>]

\* The answer of the route to the result of the service call.
POSTReply(body, result) ==
    IF result.success
      THEN [status |-> 200, success |-> TRUE, data |-> result.data,
            error |-> NoError, operation |-> body.operation, details |-> ""]
      ELSE [status |-> 500, success |-> FALSE, data |-> [kind |-> "none", id |-> 0],
            error |-> IF result.error = NoError
                        THEN ErrorMessage("Processing failed", 0) ELSE result.error,
            operation |-> body.operation, details |-> ""]

\* The requests a caller hands to processImage for its input.
ServiceCalls(caller, input) ==
    CASE caller = "POST" -> POST(input).calls
      [] caller = "handleProcessImage" ->
           <<Dispatch(input.operation, input.parameters, input.image)>>
      [] OTHER -> <<input>>

ServiceIdle ==
    /\ svcCaller = "none"
    /\ svcInput = NoRequest
    /\ svcStage = "idle"
    /\ svcRequest = NoRequest
    /\ svcFetch = <<>>
    /\ svcReply = NoReply

(***************************************************************************)
(* ExportPanel.  Text is a sequence of characters; a file name under       *)
(* construction is a text and, for a generated name, the timestamp that    *)
(* follows it.                                                             *)
(***************************************************************************)
EXPORT_FORMATS == {"png", "jpg", "webp"}
\* Positions of the quality slider (min 10, max 100) used in the model.
Qualities == {10, 90, 100}
\* What the user types into the name field.
CustomNames == {<<>>, <<" ">>, <<"a">>, <<" ", "a", " ">>}
\* Values of Date.now() at the start of an export, in milliseconds.
Instants == {0, 999, 1000, 60000}
\* File.name of the k-th dropped file.
FileName(file) ==
    CASE file = NoFile -> <<>>
      [] file = 1 -> <<"p", ".", "j">>
      [] OTHER -> <<"p", ".", "t", ".", "j">>

RECURSIVE TrimStart(_)
TrimStart(text) == IF text # <<>> /\ Head(text) = " " THEN TrimStart(Tail(text)) ELSE text
RECURSIVE TrimEnd(_)
TrimEnd(text) ==
    IF text # <<>> /\ text[Len(text)] = " "
      THEN TrimEnd(SubSeq(text, 1, Len(text) - 1)) ELSE text
\* String.prototype.trim
trim(text) == TrimEnd(TrimStart(text))

\* name.replace(/\.[^/.]+$/, ''): the last dot and what follows it are cut
\* when at least one character follows and none of them is a slash.
StripExtension(name) ==
    LET dots == {i \in 1 .. Len(name) : name[i] = "."}
    IN IF dots = {} THEN name
       ELSE LET k == CHOOSE i \in dots : \A j \in dots : j <= i
            IN IF k = Len(name) \/ \E j \in k + 1 .. Len(name) : name[j] = "/"
                 THEN name
                 ELSE SubSeq(name, 1, k - 1)

\* new Date(t).toISOString(), as its fields: date with hours and minutes
\* (characters 0..15), seconds (17..18), milliseconds (20..22).
toISOString(t) == <<t \div 60000, (t \div 1000) % 60, t % 1000>>

NoTimestamp == <<>>
\* generateFileName with slice(0, 16)
generateFileName_MinuteStamp(name, originalImageName, t) ==
    IF trim(name) # <<>>
      THEN [text |-> trim(name), timestamp |-> NoTimestamp]
      ELSE LET baseName == IF originalImageName # <<>>
                             THEN StripExtension(originalImageName)
                             ELSE <<"edited-image">>
           IN [text |-> baseName \o <<"-edited-">>,
               timestamp |-> SubSeq(toISOString(t), 1, 1)]
\* generateFileName: slice(0, 19) keeps the fields up to the seconds; the
\* replacement of ':' by '-' changes no field.
generateFileName(name, originalImageName, t) ==
    IF trim(name) # <<>>
      THEN [text |-> trim(name), timestamp |-> NoTimestamp]
      ELSE LET baseName == IF originalImageName # <<>>
                             THEN StripExtension(originalImageName)
                             ELSE <<"edited-image">>
           IN [text |-> baseName \o <<"-edited-">>,
               timestamp |-> SubSeq(toISOString(t), 1, 2)]

NoFileName == [text |-> <<>>, timestamp |-> NoTimestamp]
NoEncoder == [type |-> "", num |-> 0, den |-> 1]
\* What an export step produced: the saved file and how it was made, or a
\* failure (the alert 'Failed to export image'), or a handler left hanging.
\* readable tells whether the image data itself could be read; startedAt is
\* the time at which handleDownload was called.
NoExport == [outcome |-> "none", fileName |-> NoFileName, format |-> "", via |-> "none",
             size |-> "none", background |-> "none", encoder |-> NoEncoder,
             readable |-> TRUE, startedAt |-> 0]
ExportFailed(readable) == [NoExport EXCEPT !.outcome = "failed", !.readable = readable]
ExportHung == [NoExport EXCEPT !.outcome = "hung"]

\* imageData.includes(',') ? imageData.split(',')[1] : imageData.  An object
\* URL and an http(s) URL hold no comma; a data URI holds its text after it.
Base64Part(imageData) ==
    IF imageData.kind = "data" THEN [kind |-> "text", id |-> imageData.id] ELSE imageData

\* downloadImage -> base64ToBlob: atob throws on a text that is no base64 (an
\* object URL and an http(s) URL hold ':'); otherwise the decoded bytes are
\* saved through a link as <filename>.<format>.  decodes tells whether the
\* text of a data URI is base64.
downloadImage(base64Data, filename, format, decodes) ==
    IF base64Data.kind = "text" /\ decodes
      THEN [NoExport EXCEPT !.outcome = "saved", !.fileName = filename, !.format = format,
                            !.via = "link"]
      ELSE ExportFailed(base64Data.kind # "text")

\* How the <img> of convertAndDownload can settle for an image reference:
\* onload, onerror, or onload of a cross-origin image, which taints the
\* canvas so that toBlob throws inside the handler.
LoadOutcomes(imageData) ==
    IF imageData.kind \in {"http", "httptext"}
      THEN {"loaded", "error", "tainted"}
      ELSE {"loaded", "error"}

\* convertAndDownload passing the slider value to the encoder undivided
convertAndDownload_RawQuality(imageData, fileName, format, qualityValue, load) ==
    CASE load = "loaded" ->
           [outcome |-> "saved", fileName |-> fileName, format |-> format, via |-> "canvas",
            size |-> "natural",
            background |-> IF format = "jpg" THEN "white" ELSE "none",
            encoder |-> [type |-> format, num |-> qualityValue, den |-> 1],
            readable |-> TRUE, startedAt |-> 0]
      [] load = "error" -> ExportFailed(FALSE)
      [] OTHER -> ExportHung
\* convertAndDownload once the image has settled: the canvas takes the
\* natural size, is filled white for jpg, and toBlob gets image/<format> and
\* qualityValue / 100; onerror rejects; a throw inside onload leaves the
\* promise unsettled.
convertAndDownload(imageData, fileName, format, qualityValue, load) ==
    CASE load = "loaded" ->
           [outcome |-> "saved", fileName |-> fileName, format |-> format, via |-> "canvas",
            size |-> "natural",
            background |-> IF format = "jpg" THEN "white" ELSE "none",
            encoder |-> [type |-> format, num |-> qualityValue, den |-> 100],
            readable |-> TRUE, startedAt |-> 0]
      [] load = "error" -> ExportFailed(FALSE)
      [] OTHER -> ExportHung

NoPending == [stage |-> "none", imageData |-> NoImage, fileName |-> NoFileName,
              format |-> "", qualityValue |-> 0, startedAt |-> 0]

PanelInit ==
    /\ exportFormat = "png"
    /\ quality = 90
    /\ customName = <<>>
    /\ isExporting = FALSE
    /\ pendingExport = NoPending
    /\ exported = NoExport

\* The download button: disabled={!imageData || isExporting || isProcessing}
DownloadEnabled == hasImage /\ ~isExporting /\ ~isProcessing

(***************************************************************************)
(* ImageCanvas: the canvas that shows imageUrl = currentImageUrl, and       *)
(* getOptimalDisplaySize, which gives the canvas its size.                  *)
(***************************************************************************)
MaxLoads == 2        \* Image objects waiting for their onload / onerror at one time
MaxDim == 5          \* widths and heights handed to getOptimalDisplaySize

\* A number of the computation as a fraction num / den (den > 0).
Frac(num, den) == [num |-> num, den |-> den]
Whole(n) == Frac(n, 1)
Greater(x, y) == x.num * y.den > y.num * x.den

\* Math.round(x) of a double x computed for the fraction: the nearest integer,
\* halves upwards.  Where the fraction is exactly a half, the double that the
\* divisions and multiplications delivered may lie on either side of it.
MathRound(x) ==
    LET floor == x.num \div x.den
        twice == 2 * (x.num % x.den)
    IN IF twice = x.den THEN {floor, floor + 1}
       ELSE IF twice > x.den THEN {floor + 1}
       ELSE {floor}

\* getOptimalDisplaySize without the check of the height.
getOptimalDisplaySize_NoHeightCheck(originalWidth, originalHeight, maxDisplayWidth, maxDisplayHeight) ==
    LET fitsWidth == ~(originalWidth > maxDisplayWidth)
        displayWidth == IF fitsWidth THEN Whole(originalWidth) ELSE Whole(maxDisplayWidth)
        displayHeight == IF fitsWidth THEN Whole(originalHeight)
                         ELSE Frac(maxDisplayWidth * originalHeight, originalWidth)
    IN {[width |-> w, height |-> h] : w \in MathRound(displayWidth),
                                      h \in MathRound(displayHeight)}

\* getOptimalDisplaySize: the sizes it can return.  aspectRatio is
\* originalWidth / originalHeight, so x / aspectRatio is
\* x * originalHeight / originalWidth and x * aspectRatio is
\* x * originalWidth / originalHeight.
getOptimalDisplaySize(originalWidth, originalHeight, maxDisplayWidth, maxDisplayHeight) ==
    LET fitsWidth == ~(originalWidth > maxDisplayWidth)
        width1 == IF fitsWidth THEN Whole(originalWidth) ELSE Whole(maxDisplayWidth)
        height1 == IF fitsWidth THEN Whole(originalHeight)
                   ELSE Frac(maxDisplayWidth * originalHeight, originalWidth)
        fitsHeight == ~Greater(height1, Whole(maxDisplayHeight))
        displayHeight == IF fitsHeight THEN height1 ELSE Whole(maxDisplayHeight)
        displayWidth == IF fitsHeight THEN width1
                        ELSE Frac(maxDisplayHeight * originalWidth, originalHeight)
    IN {[width |-> w, height |-> h] : w \in MathRound(displayWidth),
                                      h \in MathRound(displayHeight)}

NoDimensions == [width |-> 0, height |-> 0]      \* null
NoSizeArgs == [originalWidth |-> 0, originalHeight |-> 0,
               maxDisplayWidth |-> 0, maxDisplayHeight |-> 0]

\* img.naturalWidth and img.naturalHeight of the images of a session: the
\* uploaded photographs are 1600 x 1200, what the service returns 1024 x 1024.
NaturalSize(src) ==
    IF src.kind = "blob" THEN [width |-> 1600, height |-> 1200]
                         ELSE [width |-> 1024, height |-> 1024]
\* containerRef.current.getBoundingClientRect()
containerRect == [width |-> 840]
maxHeight == 600
InitialCanvasSize == [width |-> 800, height |-> 600]

Zooms == {100, 150}
BlankCanvas == [src |-> NoImage, zoom |-> 100, size |-> NoDimensions]

\* The Image object loadImageToCanvas(imageSrc) creates, with its handlers.
loadImageToCanvas(imageSrc) ==
    [kind |-> "load", src |-> imageSrc, zoom |-> 100, canvasSize |-> NoDimensions]
\* The Image object applyZoom() creates; its onload draws with the zoom and
\* the canvasSize of the render in which applyZoom was created.
applyZoom(zoomValue, size, imageUrl) ==
    [kind |-> "zoom", src |-> imageUrl, zoom |-> zoomValue, canvasSize |-> size]

\* useEffect(..., [imageUrl, loadImageToCanvas]) after a render.
ImageUrlEffect(imageUrl, changed) ==
    IF changed /\ imageUrl # NoImage THEN <<loadImageToCanvas(imageUrl)>> ELSE <<>>
\* useEffect(..., [zoom, applyZoom]) after a render in which zoom, canvasSize,
\* imageDimensions or imageUrl was set; applyZoom returns at once without
\* imageDimensions or imageUrl.
ZoomEffect(zoomValue, size, dimensions, imageUrl, changed) ==
    IF changed /\ zoomValue # 100 /\ dimensions # NoDimensions /\ imageUrl # NoImage
      THEN <<applyZoom(zoomValue, size, imageUrl)>>
      ELSE <<>>

SizeIdle ==
    /\ sizeArgs = NoSizeArgs
    /\ displaySize = NoDimensions

\* The canvas before any image was given to it.
CanvasIdle ==
    /\ zoom = 100
    /\ canvasSize = InitialCanvasSize
    /\ imageDimensions = NoDimensions
    /\ isLoading = FALSE
    /\ loads = <<>>
    /\ canvasImage = BlankCanvas
    /\ loggedLoadError = FALSE
    /\ SizeIdle

\* The canvas Reset button: disabled={zoom[0] === 100 || isProcessing}
ResetZoomEnabled == zoom # 100 /\ ~isProcessing

(***************************************************************************)
(* Initial state and actions.                                              *)
(***************************************************************************)
EditorInit ==
    /\ currentFile = NoFile
    /\ currentImageUrl = NoImage
    /\ originalImageUrl = NoImage
    /\ isProcessing = FALSE
    /\ editHistory = <<>>
    /\ currentHistoryIndex = -1
    /\ processingStatus = NoStatus
    /\ inflight = <<>>
    /\ timers = 0
    /\ now = 0
    /\ nextUrl = 0
    /\ alertMsg = NoAlert
    /\ lastEvent = Event("init")
    /\ lastResult = NoResult
    /\ fetches = 0

Init == EditorInit /\ ServiceIdle /\ PanelInit /\ CanvasIdle

\* A file is dropped on the uploader: onDrop, and handleImageUpload for a
\* valid file.  The File object of the k-th accepted drop is k.
Upload(file) ==
    /\ UploaderEnabled
    /\ nextUrl < MaxUploads
    /\ nextUrl = 0 \/ Started < MaxTime
    /\ LET o == onDrop(St, file, nextUrl + 1, BlobUrl(nextUrl + 1))
       IN /\ Commit(o.st)
          /\ nextUrl' = IF o.event = "upload" THEN nextUrl + 1 ELSE nextUrl
          /\ alertMsg' = o.alertMsg
          /\ lastEvent' = Event(o.event)
    /\ lastResult' = NoResult
    /\ UNCHANGED <<serviceVars, panelVars, fetches, isProcessing, processingStatus, inflight, timers, now, canvasVars>>

Undo ==
    /\ UndoEnabled
    /\ Commit(handleUndo(St))
    /\ alertMsg' = NoAlert
    /\ lastEvent' = Event("undo") /\ lastResult' = NoResult
    /\ UNCHANGED <<serviceVars, panelVars, fetches, isProcessing, processingStatus, inflight, timers, now, nextUrl, canvasVars>>

Redo ==
    /\ RedoEnabled
    /\ Commit(handleRedo(St))
    /\ alertMsg' = NoAlert
    /\ lastEvent' = Event("redo") /\ lastResult' = NoResult
    /\ UNCHANGED <<serviceVars, panelVars, fetches, isProcessing, processingStatus, inflight, timers, now, nextUrl, canvasVars>>

Reset ==
    /\ ResetEnabled
    /\ Commit(handleReset(St))
    /\ alertMsg' = NoAlert
    /\ lastEvent' = Event("reset") /\ lastResult' = NoResult
    /\ UNCHANGED <<serviceVars, panelVars, fetches, isProcessing, processingStatus, inflight, timers, now, nextUrl, canvasVars>>

JumpTo(index) ==
    /\ HistoryButtonsEnabled
    /\ index \in -1 .. Len(editHistory) - 1
    /\ Commit(jumpTo(St, index))
    /\ alertMsg' = NoAlert
    /\ lastEvent' = Event("jumpTo") /\ lastResult' = NoResult
    /\ UNCHANGED <<serviceVars, panelVars, fetches, isProcessing, processingStatus, inflight, timers, now, nextUrl, canvasVars>>

\* handleProcessImage up to its first await (fileToBase64).  The sidebar
\* buttons call it while they are enabled; in a session without an image no
\* button is enabled and the handler's own guard answers a direct call.
ProcessStart(trigger) ==
    /\ SidebarEnabled \/ ~hasImage
    /\ Len(inflight) < MaxInflight
    /\ Started < MaxTime
    /\ IF NoImageLoaded(St)
         THEN /\ alertMsg' = [kind |-> "Please upload an image first", error |-> NoError]
              /\ lastEvent' = Event("processRejected") /\ lastResult' = NoResult
              /\ UNCHANGED <<isProcessing, processingStatus, inflight>>
         ELSE /\ isProcessing' = TRUE
              /\ processingStatus' = [kind |-> "Processing", operation |-> trigger.operation]
              /\ inflight' = Append(inflight,
                    [operation |-> trigger.operation,
                     parameters |-> trigger.parameters,
                     currentFile |-> currentFile,
                     editHistory |-> editHistory,
                     currentHistoryIndex |-> currentHistoryIndex,
                     stage |-> "fileToBase64",
                     request |-> Request(Base64Of(NoFile), "", NoParams)])
              /\ alertMsg' = NoAlert
              /\ lastEvent' = Event("processStart") /\ lastResult' = NoResult
    /\ UNCHANGED <<currentFile, currentImageUrl, originalImageUrl, editHistory,
                   currentHistoryIndex, timers, now, nextUrl, fetches, serviceVars, panelVars, canvasVars>>

\* catch of handleProcessImage without its finally block
ProcessThrew_NoFinally(i) ==
    /\ alertMsg' = [kind |-> "An error occurred while processing the image", error |-> NoError]
    /\ processingStatus' = [kind |-> "Processing failed", operation |-> ""]
    /\ timers' = timers + 1
    /\ inflight' = RemoveAt(inflight, i)
    /\ lastEvent' = Event("processThrew") /\ lastResult' = NoResult
    /\ now' = now + 1
    /\ UNCHANGED <<currentFile, currentImageUrl, originalImageUrl, editHistory,
                   currentHistoryIndex, nextUrl, fetches, isProcessing, serviceVars, panelVars, canvasVars>>
\* catch + finally of handleProcessImage
ProcessThrew(i) ==
    /\ alertMsg' = [kind |-> "An error occurred while processing the image", error |-> NoError]
    /\ processingStatus' = [kind |-> "Processing failed", operation |-> ""]
    /\ timers' = timers + 1
    /\ isProcessing' = FALSE
    /\ inflight' = RemoveAt(inflight, i)
    /\ lastEvent' = Event("processThrew") /\ lastResult' = NoResult
    /\ now' = now + 1
    /\ UNCHANGED <<currentFile, currentImageUrl, originalImageUrl, editHistory,
                   currentHistoryIndex, nextUrl, fetches, serviceVars, panelVars, canvasVars>>

\* fileToBase64 settles: the reader's onload resolves, its onerror rejects.
FileRead(i, loaded) ==
    /\ i \in 1 .. Len(inflight)
    /\ inflight[i].stage = "fileToBase64"
    /\ IF loaded
         THEN /\ inflight' = [inflight EXCEPT ![i].stage = "fetch",
                                ![i].request = Dispatch(inflight[i].operation,
                                                        inflight[i].parameters,
                                                        Base64Of(inflight[i].currentFile))]
              /\ fetches' = fetches + Len(fetchCalls(inflight'[i].request))
              /\ alertMsg' = NoAlert
              /\ lastEvent' = Event("fileRead") /\ lastResult' = NoResult
              /\ UNCHANGED <<currentFile, currentImageUrl, originalImageUrl, isProcessing,
                             editHistory, currentHistoryIndex, processingStatus, timers,
                             now, nextUrl, serviceVars, panelVars, canvasVars>>
         ELSE ProcessThrew(i)

\* handleProcessImage from the return of the service call to its end: what
\* the success branch and the else branch set.
ProcessOutcome(call, result, timestamp) ==
    IF ResultUsable(result)
      THEN LET newImageUrl == NewImageUrl(result.data)
               h == addToHistory(call.editHistory, call.currentHistoryIndex,
                                 newImageUrl, call.operation, timestamp)
           IN [currentImageUrl |-> newImageUrl,
               editHistory |-> h.editHistory,
               currentHistoryIndex |-> h.currentHistoryIndex,
               processingStatus |-> [kind |-> "completed successfully",
                                     operation |-> call.operation],
               alertMsg |-> NoAlert,
               event |-> "processSucceeded"]
      ELSE [currentImageUrl |-> currentImageUrl,
            editHistory |-> editHistory,
            currentHistoryIndex |-> currentHistoryIndex,
            processingStatus |-> [kind |-> "Processing failed", operation |-> ""],
            alertMsg |-> [kind |-> "Failed to process image",
                          error |-> IF result.error = NoError
                                      THEN ErrorMessage("Unknown error", 0)
                                      ELSE result.error],
            event |-> "processFailed"]

\* The fetch of processImage settles and handleProcessImage runs to its end.
ProcessSettled(i, response) ==
    /\ i \in 1 .. Len(inflight)
    /\ inflight[i].stage = "fetch"
    /\ LET result == processImage(inflight[i].request, response)
           o == ProcessOutcome(inflight[i], result, now + 1)
       IN /\ currentImageUrl' = o.currentImageUrl
          /\ editHistory' = o.editHistory
          /\ currentHistoryIndex' = o.currentHistoryIndex
          /\ processingStatus' = o.processingStatus
          /\ alertMsg' = o.alertMsg
          /\ lastEvent' = Event(o.event)
          /\ lastResult' = result
    /\ timers' = timers + 1
    /\ isProcessing' = FALSE
    /\ inflight' = RemoveAt(inflight, i)
    /\ now' = now + 1
    /\ UNCHANGED <<currentFile, originalImageUrl, nextUrl, fetches, serviceVars, panelVars, canvasVars>>

\* A status timer set three seconds ago fires.
TimerFires ==
    /\ timers > 0
    /\ timers' = timers - 1
    /\ processingStatus' = NoStatus
    /\ alertMsg' = NoAlert
    /\ lastEvent' = Event("timer") /\ lastResult' = NoResult
    /\ UNCHANGED <<currentFile, currentImageUrl, originalImageUrl, isProcessing, editHistory,
                   currentHistoryIndex, inflight, now, nextUrl, fetches, serviceVars, panelVars, canvasVars>>

Next ==
    \/ \E file \in DroppedFiles : Upload(file)
    \/ Undo
    \/ Redo
    \/ Reset
    \/ \E index \in -1 .. MaxTime : JumpTo(index)
    \/ \E trigger \in SidebarTriggers : ProcessStart(trigger)
    \/ \E i \in 1 .. MaxInflight, loaded \in BOOLEAN : FileRead(i, loaded)
    \/ \E i \in 1 .. MaxInflight, response \in Responses : ProcessSettled(i, response)
    \/ TimerFires

Spec == Init /\ [][Next]_vars

\* The promise a suspended invocation awaits settles: the FileReader fires
\* onload or onerror, and the promise of fetch() resolves or rejects.
AwaitSettles ==
    \/ \E i \in 1 .. MaxInflight, loaded \in BOOLEAN : FileRead(i, loaded)
    \/ \E i \in 1 .. MaxInflight, response \in Responses : ProcessSettled(i, response)
FairSpec == Spec /\ WF_vars(AwaitSettles)

\* One call of the service by one of its callers.
ServiceInit ==
    /\ EditorInit
    /\ svcCaller \in {"POST", "handleProcessImage", "processImage"}
    /\ svcInput \in ServiceInputs(svcCaller)
    /\ svcStage = "called"
    /\ svcRequest = NoRequest
    /\ svcFetch = <<>>
    /\ svcReply = NoReply
    /\ PanelInit
    /\ CanvasIdle

\* The route answers 400, or 500 from its catch block, without calling the
\* client.
ServiceRejects ==
    /\ svcStage = "called"
    /\ ServiceCalls(svcCaller, svcInput) = <<>>
    /\ svcStage' = "replied"
    /\ svcReply' = POST(svcInput).reply
    /\ UNCHANGED <<svcCaller, svcInput, svcRequest, svcFetch, editorVars, panelVars, canvasVars>>

\* The caller hands its request to processImage, which builds the prompt and
\* calls fetch.
ServiceCalled ==
    /\ svcStage = "called"
    /\ ServiceCalls(svcCaller, svcInput) # <<>>
    /\ svcRequest' = ServiceCalls(svcCaller, svcInput)[1]
    /\ svcFetch' = fetchCalls(svcRequest')
    /\ svcStage' = "fetch"
    /\ UNCHANGED <<svcCaller, svcInput, svcReply, editorVars, panelVars, canvasVars>>

\* fetch settles; processImage returns and the caller returns.
ServiceResponds(response) ==
    /\ svcStage = "fetch"
    /\ LET result == processImage(svcRequest, response)
       IN svcReply' = IF svcCaller = "POST"
                        THEN POSTReply(svcInput, result)
                        ELSE [status |-> 0, success |-> result.success, data |-> result.data,
                              error |-> result.error, operation |-> svcRequest.operation,
                              details |-> ""]
    /\ svcStage' = "replied"
    /\ UNCHANGED <<svcCaller, svcInput, svcRequest, svcFetch, editorVars, panelVars, canvasVars>>

ServiceNext ==
    \/ ServiceRejects
    \/ ServiceCalled
    \/ \E response \in Responses : ServiceResponds(response)

ServiceSpec == ServiceInit /\ [][ServiceNext]_vars

\* The panel next to a session with an image: after one or two uploads, and
\* after one completed operation whose result was a URL, a text starting
\* with http, or another text, once its status timer has fired.
ExportInit ==
    /\ \E file \in 1 .. 2 :
         /\ currentFile = file
         /\ originalImageUrl = BlobUrl(file)
         /\ nextUrl = file
         /\ \/ /\ currentImageUrl = BlobUrl(file)
               /\ editHistory = <<>>
               /\ currentHistoryIndex = -1
               /\ now = 0 /\ fetches = 0
               /\ lastEvent = [name |-> "upload", index |-> -1, length |-> 0]
            \/ /\ file = 1
               /\ \E kind \in {"http", "httptext", "text"} :
                    LET newImageUrl == NewImageUrl([kind |-> kind, id |-> 1])
                        h == addToHistory(<<>>, -1, newImageUrl, "enhance", 1)
                    IN /\ currentImageUrl = newImageUrl
                       /\ editHistory = h.editHistory
                       /\ currentHistoryIndex = h.currentHistoryIndex
               /\ now = 1 /\ fetches = 1
               /\ lastEvent = [name |-> "timer", index |-> 0, length |-> 1]
    /\ isProcessing = FALSE
    /\ processingStatus = NoStatus
    /\ inflight = <<>>
    /\ timers = 0
    /\ alertMsg = NoAlert
    /\ lastResult = NoResult
    /\ ServiceIdle
    /\ PanelInit
    /\ CanvasIdle

\* <Select value={exportFormat} onValueChange={setExportFormat}>
SetExportFormat(format) ==
    /\ exportFormat' = format
    /\ exported' = NoExport
    /\ UNCHANGED <<quality, customName, isExporting, pendingExport, editorVars, serviceVars, canvasVars>>

\* The quality slider and presets, rendered while the format is not png.
SetQuality(q) ==
    /\ exportFormat # "png"
    /\ quality' = q
    /\ exported' = NoExport
    /\ UNCHANGED <<exportFormat, customName, isExporting, pendingExport, editorVars,
                   serviceVars, canvasVars>>

\* The name field: disabled={isExporting || isProcessing}
SetCustomName(name) ==
    /\ ~isExporting /\ ~isProcessing
    /\ customName' = name
    /\ exported' = NoExport
    /\ UNCHANGED <<exportFormat, quality, isExporting, pendingExport, editorVars, serviceVars, canvasVars>>

\* handleDownload at time t: for png to its end, for jpg and webp up to the
\* await of convertAndDownload.
Download(t, decodes) ==
    /\ DownloadEnabled
    /\ LET fileName == generateFileName(customName, FileName(currentFile), t)
       IN IF exportFormat = "png"
            THEN /\ exported' = [downloadImage(Base64Part(currentImageUrl), fileName, "png",
                                               decodes) EXCEPT !.startedAt = t]
                 /\ UNCHANGED <<isExporting, pendingExport>>
            ELSE /\ isExporting' = TRUE
                 /\ pendingExport' = [stage |-> "loading", imageData |-> currentImageUrl,
                                      fileName |-> fileName, format |-> exportFormat,
                                      qualityValue |-> quality, startedAt |-> t]
                 /\ exported' = NoExport
    /\ UNCHANGED <<exportFormat, quality, customName, editorVars, serviceVars, canvasVars>>

\* The image of convertAndDownload settles and handleDownload runs to its
\* end, unless the throw inside onload left its promise unsettled.
ImageSettles(load) ==
    /\ pendingExport.stage = "loading"
    /\ load \in LoadOutcomes(pendingExport.imageData)
    /\ exported' = [convertAndDownload(pendingExport.imageData, pendingExport.fileName,
                                       pendingExport.format, pendingExport.qualityValue,
                                       load) EXCEPT !.startedAt = pendingExport.startedAt]
    /\ IF exported'.outcome = "hung"
         THEN /\ pendingExport' = [pendingExport EXCEPT !.stage = "hung"]
              /\ UNCHANGED isExporting
         ELSE /\ pendingExport' = NoPending
              /\ isExporting' = FALSE
    /\ UNCHANGED <<exportFormat, quality, customName, editorVars, serviceVars, canvasVars>>

ExportNext ==
    \/ \E format \in EXPORT_FORMATS : SetExportFormat(format)
    \/ \E q \in Qualities : SetQuality(q)
    \/ \E name \in CustomNames : SetCustomName(name)
    \/ \E t \in Instants, decodes \in BOOLEAN : Download(t, decodes)
    \/ \E load \in {"loaded", "error", "tainted"} : ImageSettles(load)

ExportSpec == ExportInit /\ [][ExportNext]_vars

\* One call of getOptimalDisplaySize with positive whole numbers.
SizeInit ==
    /\ EditorInit /\ ServiceIdle /\ PanelInit
    /\ zoom = 100
    /\ canvasSize = InitialCanvasSize
    /\ imageDimensions = NoDimensions
    /\ isLoading = FALSE
    /\ loads = <<>>
    /\ canvasImage = BlankCanvas
    /\ loggedLoadError = FALSE
    /\ sizeArgs \in [originalWidth : 1 .. MaxDim, originalHeight : 1 .. MaxDim,
                     maxDisplayWidth : 1 .. MaxDim, maxDisplayHeight : 1 .. MaxDim]
    /\ displaySize = NoDimensions

\* The call returns.
SizeReturned ==
    /\ displaySize = NoDimensions
    /\ displaySize' \in getOptimalDisplaySize(sizeArgs.originalWidth, sizeArgs.originalHeight,
                                              sizeArgs.maxDisplayWidth,
                                              sizeArgs.maxDisplayHeight)
    /\ UNCHANGED <<sizeArgs, zoom, canvasSize, imageDimensions, isLoading, loads, canvasImage,
                   loggedLoadError, editorVars, serviceVars, panelVars>>

SizeNext == SizeReturned

SizeSpec == SizeInit /\ [][SizeNext]_vars

\* The canvas next to a session: file 1 was uploaded, one operation returned
\* the URL of its result, and the canvas has drawn that result.
CanvasInit ==
    /\ currentFile = 1
    /\ originalImageUrl = BlobUrl(1)
    /\ nextUrl = 1
    /\ LET newImageUrl == NewImageUrl([kind |-> "http", id |-> 1])
           h == addToHistory(<<>>, -1, newImageUrl, "enhance", 1)
       IN /\ currentImageUrl = newImageUrl
          /\ editHistory = h.editHistory
          /\ currentHistoryIndex = h.currentHistoryIndex
    /\ now = 1 /\ fetches = 1
    /\ lastEvent = [name |-> "timer", index |-> 0, length |-> 1]
    /\ isProcessing = FALSE
    /\ processingStatus = NoStatus
    /\ inflight = <<>>
    /\ timers = 0
    /\ alertMsg = NoAlert
    /\ lastResult = NoResult
    /\ ServiceIdle
    /\ PanelInit
    /\ zoom = 100
    /\ imageDimensions = NaturalSize(currentImageUrl)
    /\ canvasSize \in getOptimalDisplaySize(imageDimensions.width, imageDimensions.height,
                                            containerRect.width - 40, maxHeight)
    /\ isLoading = FALSE
    /\ loads = <<>>
    /\ canvasImage = [src |-> currentImageUrl, zoom |-> 100, size |-> canvasSize]
    /\ loggedLoadError = FALSE
    /\ SizeIdle

\* A handler of the controller sets the session to s; ImageCanvas is rendered
\* with the new imageUrl and its effects run.
ImageShown(event, s) ==
    /\ Commit(s)
    /\ LET changed == s.currentImageUrl # currentImageUrl
           created == ImageUrlEffect(s.currentImageUrl, changed)
                        \o ZoomEffect(zoom, canvasSize, imageDimensions,
                                      s.currentImageUrl, changed)
       IN /\ Len(loads) + Len(created) <= MaxLoads
          /\ loads' = loads \o created
          /\ isLoading' = IF ImageUrlEffect(s.currentImageUrl, changed) # <<>>
                            THEN TRUE ELSE isLoading
    /\ alertMsg' = NoAlert
    /\ lastEvent' = Event(event) /\ lastResult' = NoResult
    /\ UNCHANGED <<zoom, canvasSize, imageDimensions, canvasImage, loggedLoadError,
                   sizeArgs, displaySize, fetches, isProcessing, processingStatus,
                   inflight, timers, now, nextUrl, serviceVars, panelVars>>

UndoShown == UndoEnabled /\ ImageShown("undo", handleUndo(St))
RedoShown == RedoEnabled /\ ImageShown("redo", handleRedo(St))
ResetShown == ResetEnabled /\ ImageShown("reset", handleReset(St))
JumpToShown(index) ==
    /\ HistoryButtonsEnabled
    /\ index \in -1 .. Len(editHistory) - 1
    /\ ImageShown("jumpTo", jumpTo(St, index))

\* The zoom slider: onValueChange={setZoom}.
SetZoom(value) ==
    /\ value # zoom
    /\ zoom' = value
    /\ LET created == ZoomEffect(value, canvasSize, imageDimensions, currentImageUrl, TRUE)
       IN /\ Len(loads) + Len(created) <= MaxLoads
          /\ loads' = loads \o created
    /\ UNCHANGED <<canvasSize, imageDimensions, isLoading, canvasImage, loggedLoadError,
                   sizeArgs, displaySize, editorVars, serviceVars, panelVars>>

\* The Reset button of the canvas.
resetZoom ==
    /\ ResetZoomEnabled
    /\ zoom' = 100
    /\ LET created == IF currentImageUrl # NoImage
                        THEN <<loadImageToCanvas(currentImageUrl)>> ELSE <<>>
       IN /\ Len(loads) + Len(created) <= MaxLoads
          /\ loads' = loads \o created
          /\ isLoading' = IF created # <<>> THEN TRUE ELSE isLoading
    /\ UNCHANGED <<canvasSize, imageDimensions, canvasImage, loggedLoadError,
                   sizeArgs, displaySize, editorVars, serviceVars, panelVars>>

\* img.onload of a waiting Image object: of loadImageToCanvas, which sizes
\* the canvas, draws and sets three states (the render that follows runs the
\* zoom effect), or of applyZoom, which only draws.
ImageLoaded(i) ==
    /\ i \in 1 .. Len(loads)
    /\ IF loads[i].kind = "load"
         THEN /\ imageDimensions' = NaturalSize(loads[i].src)
              /\ canvasSize' \in getOptimalDisplaySize(imageDimensions'.width,
                                                       imageDimensions'.height,
                                                       containerRect.width - 40, maxHeight)
              /\ canvasImage' = [src |-> loads[i].src, zoom |-> 100, size |-> canvasSize']
              /\ isLoading' = FALSE
              /\ loads' = RemoveAt(loads, i)
                            \o ZoomEffect(zoom, canvasSize', imageDimensions',
                                          currentImageUrl, TRUE)
         ELSE /\ canvasImage' = [src |-> loads[i].src, zoom |-> loads[i].zoom,
                                 size |-> loads[i].canvasSize]
              /\ loads' = RemoveAt(loads, i)
              /\ UNCHANGED <<imageDimensions, canvasSize, isLoading>>
    /\ UNCHANGED <<zoom, loggedLoadError, sizeArgs, displaySize,
                   editorVars, serviceVars, panelVars>>

\* img.onerror; the Image object of applyZoom has no onerror handler.
ImageFailed(i) ==
    /\ i \in 1 .. Len(loads)
    /\ loads' = RemoveAt(loads, i)
    /\ IF loads[i].kind = "load"
         THEN isLoading' = FALSE /\ loggedLoadError' = TRUE
         ELSE UNCHANGED <<isLoading, loggedLoadError>>
    /\ UNCHANGED <<zoom, canvasSize, imageDimensions, canvasImage, sizeArgs, displaySize,
                   editorVars, serviceVars, panelVars>>

CanvasNext ==
    \/ UndoShown
    \/ RedoShown
    \/ ResetShown
    \/ \E index \in -1 .. MaxTime : JumpToShown(index)
    \/ \E value \in Zooms : SetZoom(value)
    \/ resetZoom
    \/ \E i \in 1 .. MaxLoads : ImageLoaded(i)
    \/ \E i \in 1 .. MaxLoads : ImageFailed(i)

CanvasSpec == CanvasInit /\ [][CanvasNext]_vars


(***************************************************************************)
(* Properties.                                                             *)
(***************************************************************************)
RECURSIVE UndoTimes(_, _)
UndoTimes(s, n) == IF n = 0 THEN s ELSE UndoTimes(handleUndo(s), n - 1)

\* The call whose completion is the step from the current state to the next.
CompletedCalls == {k \in 1 .. Len(inflight) : inflight' = RemoveAt(inflight, k)}

\* C1: an undo right after a successful operation shows again the image that
\* was current just before the operation; and from every state, undo repeated
\* as many times as the history is long ends at index -1 with the original
\* image, where one more undo changes nothing.
C1_UndoReturnsToPrevious ==
    [][ /\ lastEvent'.name = "processSucceeded"
          => handleUndo(St').currentImageUrl = currentImageUrl
        /\ LET s == UndoTimes(St', Len(editHistory'))
           IN /\ s.currentHistoryIndex = -1
              /\ s.currentImageUrl = originalImageUrl'
              /\ handleUndo(s) = s ]_vars

\* An operation succeeded on top of an earlier edit.
C1_Witness ==
    /\ lastEvent.name = "processSucceeded"
    /\ lastEvent.index = 0
    /\ currentHistoryIndex = 1
    /\ editHistory[1].imageUrl # editHistory[2].imageUrl

\* C2: redo undoes an undo and undo undoes a redo: after an undo step, redo
\* gives back the index, the image and the history of before the undo, and
\* likewise for undo after a redo step.
C2_RedoInvertsUndo ==
    [][ /\ lastEvent'.name = "undo" => handleRedo(St') = St
        /\ lastEvent'.name = "redo" => handleUndo(St') = St ]_vars

\* A redo has just brought back the second of two different edits.
C2_Witness ==
    /\ lastEvent.name = "redo"
    /\ lastEvent.index = 0
    /\ currentHistoryIndex = 1
    /\ editHistory[1].imageUrl # editHistory[2].imageUrl

\* C3: a successful operation at index i keeps entries 0..i, drops the later
\* ones, appends one entry with the operation's name and the new current
\* image, and points the index at it, so that nothing is left to redo.
C3_AppendTruncates ==
    [][ lastEvent'.name = "processSucceeded" =>
          LET i == currentHistoryIndex IN
          /\ Len(editHistory') = i + 2
          /\ SubSeq(editHistory', 1, i + 1) = SubSeq(editHistory, 1, i + 1)
          /\ editHistory'[i + 2].imageUrl = currentImageUrl'
          /\ \E k \in CompletedCalls : editHistory'[i + 2].operation = inflight[k].operation
          /\ currentHistoryIndex' = Len(editHistory') - 1
          /\ ~canRedo'
          /\ handleRedo(St') = St' ]_vars

\* An operation succeeded after a return to the original image: the entry
\* that could be redone was dropped.
C3_Witness ==
    /\ lastEvent.name = "processSucceeded"
    /\ lastEvent.index = -1
    /\ lastEvent.length = 1
    /\ Len(editHistory) = 1
    /\ currentHistoryIndex = 0

\* C4: reset shows the original image again, empties the history, sets the
\* index to -1 and keeps the original image.
C4_ResetRestoresOriginal ==
    [][ lastEvent'.name = "reset" =>
          /\ currentImageUrl' = originalImageUrl'
          /\ editHistory' = <<>>
          /\ currentHistoryIndex' = -1
          /\ originalImageUrl' = originalImageUrl ]_vars

\* A reset at the second of two entries.
C4_Witness ==
    /\ lastEvent.name = "reset"
    /\ lastEvent.index = 1
    /\ lastEvent.length = 2
    /\ currentImageUrl = originalImageUrl
    /\ editHistory = <<>>

\* Responses the claim counts as failures of the remote call.
FailedResponse(request, response) ==
    \/ ~response.network
    \/ ~ResponseOk(response)
    \/ ~processImage(request, response).success

\* C5: a failed operation (fetch rejected, status not 2xx, failure result,
\* file not readable) appends no entry and leaves both images, the history
\* and the index as they were; it shows an alert and a failure status, and
\* the session is no longer processing.
C5_FailureLeavesState ==
    [][ /\ \A k \in 1 .. Len(inflight) : \A response \in Responses :
             (inflight[k].stage = "fetch" /\ FailedResponse(inflight[k].request, response))
             => LET o == ProcessOutcome(inflight[k],
                                        processImage(inflight[k].request, response), now + 1)
                IN /\ o.currentImageUrl = currentImageUrl
                   /\ o.editHistory = editHistory
                   /\ o.currentHistoryIndex = currentHistoryIndex
                   /\ o.event = "processFailed"
        /\ lastEvent'.name \in {"processFailed", "processThrew"}
             => /\ UNCHANGED <<currentFile, currentImageUrl, originalImageUrl,
                              editHistory, currentHistoryIndex>>
                /\ alertMsg' # NoAlert
                /\ processingStatus'.kind = "Processing failed"
                /\ ~isProcessing' ]_vars

\* The service answered 500 to an operation on an edited image.
C5_Witness ==
    /\ lastEvent.name = "processFailed"
    /\ alertMsg.error.status = 500
    /\ lastEvent.length = 1
    /\ Len(editHistory) = 1
    /\ currentHistoryIndex = 0


\* C6: processImage returns a failure result, with an error message, for a
\* rejected fetch and for every status that is not 2xx, and whenever no
\* payload can be extracted from a 2xx answer; a success result always
\* carries a payload.
C6_FailuresAreFailureResults ==
    /\ \A k \in 1 .. Len(inflight) : \A response \in Responses :
         (inflight[k].stage = "fetch" /\ (~response.network \/ ~ResponseOk(response)))
         => LET result == processImage(inflight[k].request, response)
            IN ~result.success /\ result.error # NoError
    /\ lastResult # NoResult
         => /\ lastResult.success => lastResult.data # EmptyData
            /\ ~lastResult.success => lastResult.error # NoError

\* C7: the history index is -1 or the position of an entry.
C7_IndexInRange ==
    \/ currentHistoryIndex = -1
    \/ (0 <= currentHistoryIndex /\ currentHistoryIndex < Len(editHistory))

\* An operation has just appended the second entry.
C7_Witness ==
    /\ lastEvent.name = "processSucceeded"
    /\ Len(editHistory) = 2
    /\ currentHistoryIndex = 1

\* C8: at most one handleProcessImage is between its start and its end, and
\* so at most one request is out; the processing flag is up exactly then, and
\* while it is up the sidebar triggers are disabled although the handler
\* itself would accept a call.
C8_OneOperationInFlight ==
    /\ Len(inflight) <= 1
    /\ isProcessing <=> Len(inflight) = 1
    /\ isProcessing => (~SidebarEnabled /\ currentFile # NoFile /\ currentImageUrl # NoImage)

\* A request is out.
C8_Witness ==
    /\ Len(inflight) = 1
    /\ inflight[1].stage = "fetch"
    /\ isProcessing

\* C9: while an operation is in flight none of upload, undo, redo, reset and
\* the history buttons is enabled, both images, the history and the index
\* stay as they are until the operation completes, and the history and index
\* captured by the running handler are the current ones.
C9_SessionFrozenWhileProcessing ==
    [][ isProcessing =>
          /\ ~UploaderEnabled /\ ~UndoEnabled /\ ~RedoEnabled
          /\ ~ResetEnabled /\ ~HistoryButtonsEnabled
          /\ isProcessing' => UNCHANGED <<currentFile, currentImageUrl, originalImageUrl,
                                          editHistory, currentHistoryIndex>>
          /\ \A k \in 1 .. Len(inflight) :
               /\ inflight[k].editHistory = editHistory
               /\ inflight[k].currentHistoryIndex = currentHistoryIndex
               /\ inflight[k].currentFile = currentFile ]_vars

\* An operation is in flight on an edited image that has an entry to undo.
C9_Witness ==
    /\ isProcessing
    /\ Len(inflight) = 1
    /\ inflight[1].stage = "fetch"
    /\ currentHistoryIndex = 0
    /\ Len(editHistory) = 1

\* Image references in use in the session.
ImagesInUse == {currentImageUrl, originalImageUrl}
                 \cup {editHistory[k].imageUrl : k \in 1 .. Len(editHistory)}

\* C10: an upload sets the original and the current image to one new
\* reference, empties the history and sets the index to -1.
C10_UploadReplacesSession ==
    [][ lastEvent'.name = "upload" =>
          /\ currentImageUrl' = originalImageUrl'
          /\ currentImageUrl' \notin ImagesInUse
          /\ currentImageUrl'.kind = "blob"
          /\ currentFile' # NoFile /\ currentFile' # currentFile
          /\ editHistory' = <<>>
          /\ currentHistoryIndex' = -1 ]_vars

\* A second file was uploaded over an edited image.
C10_Witness ==
    /\ lastEvent.name = "upload"
    /\ lastEvent.index = 0
    /\ lastEvent.length = 1
    /\ nextUrl = 2
    /\ editHistory = <<>>

\* C11: a dropped file is accepted iff its MIME type is one of image/jpeg,
\* image/jpg, image/png, image/webp, image/gif and its size is at most
\* 10 MB; for a rejected file validation returns valid = FALSE with a
\* non-empty message, the upload handler does not run, and the step that
\* handles the drop changes nothing of the session.
C11_Accepted(file) ==
    /\ file.type \in {"image/jpeg", "image/jpg", "image/png", "image/webp", "image/gif"}
    /\ file.size <= 10485760
C11_ValidationGatesUpload ==
    [][/\ lastEvent'.name = "uploadRejected" =>
            /\ \A file \in [type : FileTypes, size : FileSizes] :
                 LET validation == validateImageFile(file)
                 IN /\ validation.valid <=> C11_Accepted(file)
                    /\ ~C11_Accepted(file) => validation.error # ""
            /\ \A file \in DroppedFiles :
                 LET o == onDrop(St, file, nextUrl + 1, BlobUrl(nextUrl + 1))
                 IN /\ (o.event = "upload") <=> C11_Accepted(file)
                    /\ ~C11_Accepted(file) =>
                          /\ o.st = St
                          /\ o.alertMsg.kind = validateImageFile(file).error
            /\ alertMsg'.kind # "none"
            /\ UNCHANGED <<currentFile, currentImageUrl, originalImageUrl, isProcessing,
                           editHistory, currentHistoryIndex, processingStatus, inflight,
                           timers, nextUrl>>
       /\ lastEvent'.name = "upload" => currentFile' = nextUrl + 1]_vars
\* A drop was rejected while an image with history was loaded.
C11_Witness ==
    /\ lastEvent.name = "uploadRejected"
    /\ lastEvent.length > 0
    /\ alertMsg.kind = "Image size must be less than 10MB"

\* C13: handleProcessImage called while no image is loaded shows "Please
\* upload an image first" and returns: the processing flag stays false, no
\* invocation is suspended, no request is sent and no session state changes.
C13_NoImageNoProcessing ==
    [][(currentFile = NoFile \/ currentImageUrl = NoImage)
         /\ lastEvent'.name \in {"processStart", "processRejected"}
       => /\ lastEvent'.name = "processRejected"
          /\ alertMsg'.kind = "Please upload an image first"
          /\ ~isProcessing' /\ inflight' = <<>> /\ fetches' = fetches
          /\ UNCHANGED <<currentFile, currentImageUrl, originalImageUrl, isProcessing,
                         editHistory, currentHistoryIndex, processingStatus, inflight,
                         timers, now, nextUrl>>]_vars
\* The handler ran in the empty session and the session is still empty.
C13_Witness ==
    /\ lastEvent.name = "processRejected"
    /\ currentFile = NoFile /\ currentImageUrl = NoImage
    /\ alertMsg.kind = "Please upload an image first"

\* C14: one processImage issues exactly one fetch, to the fixed endpoint; the
\* number of fetches never exceeds the number of operations started (one
\* processImage per handleProcessImage at most), and a step that ends an
\* operation with a failure issues no request and leaves no invocation of
\* that operation behind.
C14_OneRequestPerOperation ==
    [][/\ fetches' - fetches = IF lastEvent'.name = "fileRead" THEN 1 ELSE 0
       /\ fetches' <= now' + Len(inflight')
       /\ \A i \in 1 .. Len(inflight') :
            inflight'[i].stage = "fetch" =>
              /\ Len(fetchCalls(inflight'[i].request)) = 1
              /\ fetchCalls(inflight'[i].request)[1].url
                   = "https://oi-server.onrender.com/chat/completions"
       /\ lastEvent'.name \in {"processFailed", "processThrew"} =>
            /\ fetches' = fetches
            /\ Len(inflight') = Len(inflight) - 1
            /\ ~isProcessing']_vars
\* Two operations have ended, the second with a failure, after two fetches.
C14_Witness ==
    /\ lastEvent.name = "processFailed"
    /\ fetches = 2 /\ now = 2 /\ inflight = <<>>

\* C12: when the file read and the remote call each complete, an operation
\* that set the processing flag is followed by a state where the flag is
\* false again, whichever way it ends (success, failure result, exception),
\* and whenever the flag is false with an image loaded the operation buttons
\* are enabled again and nothing of the operation is left suspended.
C12_ProcessingEnds ==
    /\ isProcessing ~> ~isProcessing
    /\ [](~isProcessing /\ hasImage => SidebarEnabled /\ ResetEnabled /\ inflight = <<>>)
\* An operation ended in the catch block and the flag is false again.
C12_Witness ==
    /\ lastEvent.name = "processThrew"
    /\ ~isProcessing /\ hasImage /\ inflight = <<>>

\* 2xx answers whose first choice carries a message text, and what the claim
\* takes for the payload of each: the URL found in the text, or else the
\* entire text; and the image URL the controller makes of a payload.
C15_TextResponses ==
    {r \in Responses : r.network /\ ResponseOk(r)
                         /\ r.body.shape \in {"emptyText", "urlText", "httpText", "plainText"}}
C15_Payload(body) ==
    CASE body.shape = "urlText" -> [kind |-> "http", id |-> body.id]
      [] body.shape = "httpText" -> [kind |-> "httptext", id |-> body.id]
      [] body.shape = "plainText" -> [kind |-> "text", id |-> body.id]
      [] OTHER -> EmptyData
C15_Adopted(data) ==
    IF data.kind \in {"http", "httptext"} THEN data ELSE [kind |-> "data", id |-> data.id]

C16_BackgroundRemovalPromptFixed ==
    (svcStage \in {"fetch", "replied"} /\ svcRequest.operation = "background-removal")
    => /\ Len(svcFetch) = 1
       /\ svcFetch[1].text = [template |-> "Remove the background", arg |-> ""]
\* processImage was called for background-removal with every parameter set.
C16_Witness ==
    /\ svcCaller = "processImage"
    /\ svcStage = "fetch"
    /\ svcRequest = Request(Base64Of(2), "background-removal",
                            [style |-> "anime", prompt |-> "cat", intensity |-> 50,
                             mask |-> "mask"])

\* C17: the controller and the route hand an operation name outside the five
\* enumerated ones to processImage as one request with operation "enhance",
\* the caller's image and the caller's parameters unchanged; a request made
\* for a name inside the set carries that name.
C17_UnknownOperationIsEnhance ==
    LET known == svcInput.operation \in {"background-removal", "style-transfer", "enhance",
                                         "object-removal", "artistic-filter"}
    IN svcCaller \in {"POST", "handleProcessImage"} =>
         /\ (svcStage \in {"fetch", "replied"} /\ svcRequest # NoRequest) =>
              /\ Len(svcFetch) = 1
              /\ IF known
                   THEN svcRequest.operation = svcInput.operation
                   ELSE svcRequest = Request(svcInput.image, "enhance", svcInput.parameters)
         /\ (svcStage = "replied" /\ ~known
               /\ svcInput.operation # "" /\ svcInput.image.kind = "base64") =>
              /\ svcRequest.operation = "enhance"
              /\ svcReply.status # 400
\* The route answered 200 to a custom-edit that went out as "enhance".
C17_Witness ==
    /\ svcCaller = "POST"
    /\ svcInput.operation = "custom-edit"
    /\ svcInput.parameters.prompt = "cat"
    /\ svcStage = "replied"
    /\ svcReply.status = 200
    /\ svcRequest.operation = "enhance"
    /\ svcRequest.parameters = svcInput.parameters

\* C18: an export in any of the formats png, jpg, webp of any image reference
\* the session can hold (object URL, remote http(s) URL, data URI) whose
\* image data is readable decodes the image into an off-screen surface at
\* its natural resolution and saves a file named <name>.<format>; it does
\* not fail because of the form of the reference.
C18_ExportWorksForEveryReference ==
    (exported.outcome # "none" /\ exported.readable)
    => /\ exported.outcome = "saved"
       /\ exported.via = "canvas"
       /\ exported.size = "natural"
       /\ exported.format \in {"png", "jpg", "webp"}
       /\ exported.fileName # NoFileName

\* C19: an export with png hands no quality to any encoder, whatever the
\* quality setting; an export with jpg or webp hands the quality setting q
\* found at the click (10 <= q <= 100) to the encoder as q / 100; and the
\* canvas is filled white for jpg only.
C19_QualityAndFlattening ==
    [][/\ (pendingExport.stage = "none" /\ pendingExport'.stage = "loading") =>
            /\ exportFormat \in {"jpg", "webp"}
            /\ pendingExport'.format = exportFormat
            /\ pendingExport'.qualityValue = quality
            /\ quality >= 10 /\ quality <= 100
       /\ (pendingExport.stage = "loading" /\ exported'.outcome = "saved") =>
            /\ exported'.format = pendingExport.format
            /\ exported'.encoder.type = pendingExport.format
            /\ exported'.encoder.num = pendingExport.qualityValue
            /\ exported'.encoder.den = 100
            /\ (exported'.background = "white") <=> (pendingExport.format = "jpg")
       /\ (exported'.outcome # "none" /\ pendingExport.stage = "none") =>
            /\ exportFormat = "png"
            /\ exported'.encoder = NoEncoder
            /\ exported'.background = "none"
            /\ \A decodes \in BOOLEAN :
                 exported'.outcome
                   = downloadImage(Base64Part(currentImageUrl), exported'.fileName, "png",
                                   decodes).outcome
                 => [exported' EXCEPT !.startedAt = 0]
                      = downloadImage(Base64Part(currentImageUrl), exported'.fileName,
                                      "png", decodes)]_vars
\* A webp file was saved at the lowest quality of the slider, unflattened.
C19_Witness ==
    /\ exported.outcome = "saved"
    /\ exported.format = "webp"
    /\ exported.encoder = [type |-> "webp", num |-> 10, den |-> 100]
    /\ exported.background = "none"

\* The file name an export step has generated, where the state shows one.
C20_Named(pending, result) ==
    \/ pending.stage = "loading"
    \/ result.outcome = "saved" /\ result.via = "link"
C20_FileName(pending, result) ==
    IF pending.stage = "loading" THEN pending.fileName ELSE result.fileName
C20_StartedAt(pending, result) ==
    IF pending.stage = "loading" THEN pending.startedAt ELSE result.startedAt

\* C20 as stated: the file name is the user-supplied name verbatim when that
\* is non-empty, and otherwise <base name without extension>-edited-
\* <timestamp> with the timestamp truncated to the minute.
C20_VerbatimOrMinuteStamp ==
    [][(pendingExport.stage = "none" /\ C20_Named(pendingExport', exported')) =>
         LET fileName == C20_FileName(pendingExport', exported')
             t == C20_StartedAt(pendingExport', exported')
         IN IF customName # <<>>
              THEN fileName = [text |-> customName, timestamp |-> <<>>]
              ELSE fileName = [text |-> StripExtension(FileName(currentFile)) \o <<"-edited-">>,
                               timestamp |-> <<t \div 60000>>]]_vars

\* C20, amended: the file name is the user-supplied name without its leading
\* and trailing whitespace when that is non-empty, and otherwise <base name
\* without extension>-edited-<timestamp> with the timestamp truncated to the
\* second (the milliseconds are dropped).
C20_TrimmedOrSecondStamp ==
    [][(pendingExport.stage = "none" /\ C20_Named(pendingExport', exported')) =>
         LET fileName == C20_FileName(pendingExport', exported')
             t == C20_StartedAt(pendingExport', exported')
         IN IF trim(customName) # <<>>
              THEN /\ fileName = [text |-> trim(customName), timestamp |-> <<>>]
                   /\ Head(fileName.text) # " "
                   /\ fileName.text[Len(fileName.text)] # " "
              ELSE fileName = [text |-> StripExtension(FileName(currentFile)) \o <<"-edited-">>,
                               timestamp |-> <<t \div 60000, (t \div 1000) % 60>>]]_vars
\* A name was generated for the second file, one second into the first
\* minute, after a blank name had been typed.
C20_Witness ==
    /\ pendingExport.stage = "loading"
    /\ customName = <<" ">>
    /\ currentFile = 2
    /\ pendingExport.fileName = [text |-> <<"p", ".", "t", "-edited-">>,
                                 timestamp |-> <<0, 1>>]

(***************************************************************************)
(* C21: the POST route answers a body without image, without operation or  *)
(* with an image that is no string with status 400 and never calls the     *)
(* remote service for it; an exception thrown while the request is handled *)
(* is answered with status 500 and a body with error and details; every    *)
(* answer of the route is an HTTP answer, no exception leaves the handler. *)
(***************************************************************************)
C21_Incomplete(body) ==
    /\ body.json = "object"
    /\ (body.image = MissingImage \/ body.operation = "" \/ body.image.kind # "base64")

C21_BadInputAndExceptionsAnswered ==
    svcCaller = "POST" =>
        /\ C21_Incomplete(svcInput) =>
              /\ svcFetch = <<>> /\ svcRequest = NoRequest /\ svcStage # "fetch"
              /\ svcStage = "replied" => svcReply.status = 400
        /\ svcInput.json # "object" =>
              /\ svcFetch = <<>> /\ svcStage # "fetch"
              /\ svcStage = "replied" =>
                    /\ svcReply.status = 500
                    /\ svcReply.error # NoError
                    /\ svcReply.details # ""
        /\ svcStage = "replied" => svcReply.status \in {200, 400, 500}

\* a request whose text is not JSON has been answered from the catch block
C21_Witness ==
    /\ svcCaller = "POST"
    /\ svcInput = MalformedBody
    /\ svcStage = "replied"
    /\ svcReply = InternalError(ErrorMessage("SyntaxError", 0))

(***************************************************************************)
(* C22: undo changes the session exactly when the index is at least 0 and  *)
(* redo exactly when the index is below the last position; canUndo and     *)
(* canRedo, which enable the two buttons, say the same; outside these      *)
(* conditions the handler leaves index, current image and history as they  *)
(* are.                                                                    *)
(***************************************************************************)
C22_Same(s, t) ==
    /\ s.currentHistoryIndex = t.currentHistoryIndex
    /\ s.currentImageUrl = t.currentImageUrl
    /\ s.editHistory = t.editHistory

C22_UndoRedoGuards ==
    /\ (handleUndo(St) # St) <=> (currentHistoryIndex >= 0)
    /\ (handleRedo(St) # St) <=> (currentHistoryIndex < Len(editHistory) - 1)
    /\ canUndo <=> (handleUndo(St) # St)
    /\ canRedo <=> (handleRedo(St) # St)
    /\ ~canUndo => C22_Same(handleUndo(St), St)
    /\ ~canRedo => C22_Same(handleRedo(St), St)
    /\ canUndo => handleUndo(St).currentHistoryIndex = currentHistoryIndex - 1
    /\ canRedo => handleRedo(St).currentHistoryIndex = currentHistoryIndex + 1

\* An undo has brought the session back to the original of a history with two
\* entries: a further undo does nothing, a redo does.
C22_Witness ==
    /\ lastEvent.name = "undo"
    /\ currentHistoryIndex = -1
    /\ Len(editHistory) = 2
    /\ handleUndo(St) = St
    /\ handleRedo(St) # St

(***************************************************************************)
(* C23: a click on a history button, for the original (k = -1) or for an   *)
(* entry k of the history, sets the index to k and the current image to    *)
(* the original image or to the image of entry k, and leaves the entries   *)
(* of the history, the original image and the file as they are; from the   *)
(* new position undo leads to k - 1 and redo to k + 1 wherever such a      *)
(* position exists.                                                        *)
(***************************************************************************)
C23_Jumped(s, t, k) ==
    /\ t.currentHistoryIndex = k
    /\ t.currentImageUrl = IF k = -1 THEN s.originalImageUrl
                                     ELSE s.editHistory[k + 1].imageUrl
    /\ t.editHistory = s.editHistory
    /\ t.originalImageUrl = s.originalImageUrl
    /\ t.currentFile = s.currentFile
    /\ k >= 0 =>
          /\ handleUndo(t) # t
          /\ handleUndo(t).currentHistoryIndex = k - 1
          /\ handleUndo(t).editHistory = s.editHistory
    /\ k < Len(s.editHistory) - 1 =>
          /\ handleRedo(t) # t
          /\ handleRedo(t).currentHistoryIndex = k + 1
          /\ handleRedo(t).currentImageUrl = s.editHistory[k + 2].imageUrl

C23_JumpToSetsPosition ==
    [][ lastEvent'.name = "jumpTo" =>
              /\ \A k \in -1 .. Len(editHistory) - 1 : C23_Jumped(St, jumpTo(St, k), k)
              /\ \E k \in -1 .. Len(editHistory) - 1 : C23_Jumped(St, St', k)
              /\ canUndo' <=> currentHistoryIndex' >= 0
              /\ canRedo' <=> currentHistoryIndex' < Len(editHistory) - 1 ]_vars

\* A click on "Original" from the second of two entries, and then a click on
\* the second entry again.
C23_Witness ==
    /\ lastEvent.name = "jumpTo"
    /\ lastEvent.index = -1
    /\ currentHistoryIndex = 1
    /\ Len(editHistory) = 2
    /\ currentImageUrl = editHistory[2].imageUrl
    /\ currentImageUrl # originalImageUrl

(***************************************************************************)
(* C24: an entry of the history is never modified.  Across every step each *)
(* entry that is still in the history is at the position it had, with the  *)
(* same image, operation and timestamp; entries leave the history only as  *)
(* a suffix, cut by an append made below the last position, or all         *)
(* together by reset or by an upload; undo, redo and the history buttons   *)
(* remove nothing; an append adds one entry after those that are kept.     *)
(***************************************************************************)
C24_KeptPrefix(h, g, n) ==
    /\ n <= Len(h) /\ n <= Len(g)
    /\ \A i \in 1 .. n :
          /\ g[i].imageUrl = h[i].imageUrl
          /\ g[i].operation = h[i].operation
          /\ g[i].timestamp = h[i].timestamp

C24_EntriesImmutable ==
    [][ LET h == editHistory
            g == editHistory'
            ev == lastEvent'.name
        IN /\ ev \in {"undo", "redo", "jumpTo"} => g = h
           /\ ev = "processSucceeded" =>
                 /\ Len(g) = currentHistoryIndex + 2
                 /\ C24_KeptPrefix(h, g, Len(g) - 1)
                 /\ Len(g) - 1 < Len(h) => currentHistoryIndex < Len(h) - 1
           /\ ev \in {"reset", "upload"} => g = <<>>
           /\ ev \notin {"processSucceeded", "reset", "upload"} => g = h ]_vars

\* An operation succeeded after an undo to the original: the entry of the
\* first operation was cut and the new entry is the only one.
C24_Witness ==
    /\ lastEvent.name = "processSucceeded"
    /\ lastEvent.index = -1
    /\ lastEvent.length = 1
    /\ Len(editHistory) = 1
    /\ editHistory[1].timestamp = 2

(***************************************************************************)
(* C25: the image in the outbound request of an operation is the current   *)
(* image of the session: also after an earlier successful edit, or after   *)
(* undo or a history button, the request carries the picture that          *)
(* currentImageUrl shows.                                                  *)
(***************************************************************************)
\* The picture behind a reference: the object URL made of file k and the
\* base64 text read from file k show the picture of file k; a reference the
\* service returned shows that result.
C25_Picture(ref) ==
    IF ref.kind \in {"blob", "base64"} THEN [kind |-> "file", id |-> ref.id] ELSE ref

C25_OutboundIsCurrentImage ==
    \A i \in 1 .. Len(inflight) :
        inflight[i].stage = "fetch" =>
            C25_Picture(inflight[i].request.image) = C25_Picture(currentImageUrl)

(***************************************************************************)
(* C26: the instruction text sent for a custom edit with prompt p contains *)
(* p, so that custom edits of one image with different prompts send        *)
(* different instructions.                                                 *)
(***************************************************************************)
C26_Instruction(p, image) ==
    Fetch(Dispatch(handleCustomEdit(p).operation, handleCustomEdit(p).parameters, image)).text

C26_CustomPromptSent ==
    (/\ svcCaller = "handleProcessImage"
     /\ svcInput.operation = "custom-edit"
     /\ svcInput.parameters.prompt # ""
     /\ svcStage \in {"fetch", "replied"})
    => /\ Len(svcFetch) = 1
       /\ svcFetch[1].text.arg = svcInput.parameters.prompt
       /\ svcFetch[1].text = C26_Instruction(svcInput.parameters.prompt, svcInput.image)
       /\ \A q \in (Prompts \cup {"dog"}) \ {svcInput.parameters.prompt} :
             svcFetch[1].text # C26_Instruction(q, svcInput.image)

(***************************************************************************)
(* C27: in every state with an image loaded the current image is the one   *)
(* the history pointer names: the original image at index -1, the image of *)
(* entry index otherwise; this holds after upload, after an operation that *)
(* succeeded or failed, and after undo, redo, a history button and reset.  *)
(***************************************************************************)
C27_ImageAtPointer ==
    hasImage =>
        /\ currentHistoryIndex \in -1 .. Len(editHistory) - 1
        /\ currentImageUrl = IF currentHistoryIndex = -1
                               THEN originalImageUrl
                               ELSE editHistory[currentHistoryIndex + 1].imageUrl

\* An operation failed on top of the entry of an earlier operation, which
\* stays the current image.
C27_Witness ==
    /\ lastEvent.name \in {"processFailed", "processThrew"}
    /\ Len(editHistory) = 1
    /\ currentHistoryIndex = 0
    /\ currentImageUrl = editHistory[1].imageUrl
    /\ currentImageUrl # originalImageUrl

(***************************************************************************)
(* C28: while the session is processing, the status is the "Processing     *)
(* <operation>..." message of the operation in flight; the timer that an   *)
(* earlier operation set to clear the status three seconds after its end   *)
(* does not blank or replace the status of an operation that was started   *)
(* before the timer fires.                                                 *)
(***************************************************************************)
C28_StatusWhileProcessing ==
    isProcessing =>
        /\ Len(inflight) = 1
        /\ processingStatus = [kind |-> "Processing", operation |-> inflight[1].operation]

(***************************************************************************)
(* C30: for positive whole numbers w, h, maxW, maxH, getOptimalDisplaySize *)
(* returns a width of at most maxW and a height of at most maxH, neither   *)
(* of them above the original w and h, and returns w x h itself when the   *)
(* image fits into maxW x maxH.                                            *)
(***************************************************************************)
C30_Bounded(args, size) ==
    /\ size.width <= args.maxDisplayWidth
    /\ size.height <= args.maxDisplayHeight
    /\ size.width <= args.originalWidth
    /\ size.height <= args.originalHeight
    /\ (args.originalWidth <= args.maxDisplayWidth
        /\ args.originalHeight <= args.maxDisplayHeight)
       => size = [width |-> args.originalWidth, height |-> args.originalHeight]

C30_DisplaySizeFits ==
    /\ sizeArgs # NoSizeArgs =>
          \A size \in getOptimalDisplaySize(sizeArgs.originalWidth, sizeArgs.originalHeight,
                                            sizeArgs.maxDisplayWidth,
                                            sizeArgs.maxDisplayHeight) :
              C30_Bounded(sizeArgs, size)
    /\ displaySize # NoDimensions => C30_Bounded(sizeArgs, displaySize)

\* A 5 x 5 image for a 4 x 3 display: the width was cut to 4 and then, for the
\* height, both were cut to 3.
C30_Witness ==
    /\ sizeArgs = [originalWidth |-> 5, originalHeight |-> 5,
                   maxDisplayWidth |-> 4, maxDisplayHeight |-> 3]
    /\ displaySize = [width |-> 3, height |-> 3]

(***************************************************************************)
(* C29: once imageUrl has changed (by an operation, undo, redo, a history  *)
(* button or reset) and every image-load callback that was outstanding has *)
(* fired, the canvas shows the image of the latest imageUrl and the        *)
(* loading flag is false, in whatever order the callbacks of the loads of  *)
(* earlier and later imageUrl values and of zoom redraws fired.            *)
(***************************************************************************)
C29_CanvasShowsLatest ==
    (hasImage /\ loads = <<>> /\ ~loggedLoadError)
    => /\ canvasImage.src = currentImageUrl
       /\ ~isLoading

====
